---- MODULE Spec2Model ----
(***************************************************************************)
(* The HTML-to-text rendering engine of zxcv: the whitespace squeezer, the *)
(* markdown escaper, the Block accumulator of src/html/state.rs and the    *)
(* node renderer of src/html.rs, as a state machine.                       *)
(*                                                                         *)
(* A string is a sequence of one-character strings.  The renderer is a     *)
(* recursive walk over an HTML tree; the model walks the tree depth first  *)
(* and draws each node when it is visited, so that a behaviour is one walk *)
(* over one tree.  `open` is the recursion stack of render_node_inner,     *)
(* `blocks` the Block values alive on it (the last is the one the current  *)
(* call pushes into), `saved` the outer States of the isolated sub-renders *)
(* (links and headers).                                                    *)
(***************************************************************************)
EXTENDS Naturals, Sequences, FiniteSets, TLC

VARIABLES
    result, pending, initial_prefix, subsequent_prefix, gap_prefix_offset,
    blocks,     \* the Blocks alive, innermost last
    open,       \* the elements whose children are being rendered
    saved,      \* the States suspended by sub-renders, innermost last
    budget,     \* nodes that may still be visited
    pc,         \* "walk", "done" (State::render returned), "text" (pure-function runs)
    output,     \* what render_node returned
    log,        \* the accumulator calls of the last handler (history, not program state)
    fault,      \* the debug assertions that failed so far (history, not program state)
    txt,        \* the pure-function runs: input and outputs
    tbl         \* the table layout engine: the table and what was computed

vars == <<result, pending, initial_prefix, subsequent_prefix, gap_prefix_offset,
          blocks, open, saved, budget, pc, output, log, fault, txt, tbl>>

---------------------------------------------------------------------------
(* Bounds of the model.                                                    *)

MaxNodes == 3
MaxBlockNodes == 5
MaxInlineNodes == 4
MaxDepth == 4
MaxItems == 2
MaxLen == 4
MaxPreNodes == 4
MaxOlItems == 10
MaxOlNodes == 11
MaxColumns == 2
MaxTableWidth == 13
MaxRows == 2
MaxWords == 4
MaxWrapWidth == 6
MaxPathAtoms == 4
MaxPairs == 2
MaxArgv == 3
UsizeBits == 16

(* Program constants.                                                      *)
LINE_LENGTH == 80

---------------------------------------------------------------------------
(* Characters and strings.                                                 *)

NL == "\n"
SP == " "
ZWSP == "zwsp"   \* U+200B
NBSP == "nbsp"   \* U+00A0, White_Space
BT == "bt"       \* the backtick, U+0060

\* char::is_whitespace on the characters of the model
UnicodeWhitespace == {SP, NL, "\t", NBSP}

is_whitespace(c) == c \in UnicodeWhitespace \/ c = ZWSP

AllWhitespace(s) == \A i \in 1..Len(s) : is_whitespace(s[i])

StartsWith(s, p) == Len(p) <= Len(s) /\ SubSeq(s, 1, Len(p)) = p

EndsWith(s, p) == Len(p) <= Len(s) /\ SubSeq(s, Len(s) - Len(p) + 1, Len(s)) = p

Last(s) == s[Len(s)]

\* str::trim_end: drops the trailing White_Space characters
trim_end(s) ==
    LET keep == {i \in 1..Len(s) : s[i] \notin UnicodeWhitespace}
    IN  IF keep = {} THEN <<>>
        ELSE SubSeq(s, 1, CHOOSE i \in keep : \A j \in keep : j <= i)

\* str::trim_end_matches(' ')
TrimSpaces(s) ==
    LET keep == {i \in 1..Len(s) : s[i] # SP}
    IN  IF keep = {} THEN <<>>
        ELSE SubSeq(s, 1, CHOOSE i \in keep : \A j \in keep : j <= i)

\* str::split('\n'): always at least one piece
RECURSIVE SplitLines(_)
SplitLines(s) ==
    LET nls == {i \in 1..Len(s) : s[i] = NL}
    IN  IF nls = {} THEN <<s>>
        ELSE LET i == CHOOSE k \in nls : \A j \in nls : k <= j
             IN  <<SubSeq(s, 1, i - 1)>> \o SplitLines(SubSeq(s, i + 1, Len(s)))

RECURSIVE JoinLines(_)
JoinLines(ls) ==
    IF Len(ls) = 0 THEN <<>>
    ELSE IF Len(ls) = 1 THEN ls[1]
    ELSE ls[1] \o <<NL>> \o JoinLines(Tail(ls))

RECURSIVE Repeat(_, _)
Repeat(c, n) == IF n = 0 THEN <<>> ELSE <<c>> \o Repeat(c, n - 1)

Min(a, b) == IF a <= b THEN a ELSE b

---------------------------------------------------------------------------
(* SqueezeWhitespace: the iterator of squeeze_whitespace.rs, run to its    *)
(* end.  `chars` is what the inner iterator has left, `next` the stored    *)
(* character (<<>> for None).                                              *)

\* chars.find(not is_whitespace): the first such character and what follows it
FindNonWhitespace(chars) ==
    LET hits == {i \in 1..Len(chars) : ~is_whitespace(chars[i])}
    IN  IF hits = {} THEN [found |-> <<>>, rest |-> <<>>]
        ELSE LET i == CHOOSE k \in hits : \A j \in hits : k <= j
             IN  [found |-> <<chars[i]>>, rest |-> SubSeq(chars, i + 1, Len(chars))]

\* SqueezeNext ending a trailing run of whitespace with a space
RECURSIVE SqueezeNextTrailing(_, _)
SqueezeNextTrailing(chars, next) ==
    IF next # <<>> THEN next \o SqueezeNextTrailing(chars, <<>>)
    ELSE IF chars = <<>> THEN <<>>
    ELSE IF is_whitespace(Head(chars))
         THEN LET f == FindNonWhitespace(Tail(chars))
              IN  <<SP>> \o SqueezeNextTrailing(f.rest, f.found)
         ELSE <<Head(chars)>> \o SqueezeNextTrailing(Tail(chars), <<>>)

SqueezeKeepsTrailing(s) ==
    LET f == FindNonWhitespace(s) IN SqueezeNextTrailing(f.rest, f.found)

\* SqueezeNext never handing out the character it stored
RECURSIVE SqueezeNextLoses(_, _)
SqueezeNextLoses(chars, next) ==
    IF next # <<>> THEN SqueezeNextLoses(chars, <<>>)
    ELSE IF chars = <<>> THEN <<>>
    ELSE IF is_whitespace(Head(chars))
         THEN LET f == FindNonWhitespace(Tail(chars))
              IN  IF f.found # <<>> THEN <<SP>> \o SqueezeNextLoses(f.rest, f.found)
                  ELSE <<>>
         ELSE <<Head(chars)>> \o SqueezeNextLoses(Tail(chars), <<>>)

SqueezeLosesStored(s) ==
    LET f == FindNonWhitespace(s) IN SqueezeNextLoses(f.rest, f.found)

RECURSIVE SqueezeNext(_, _)
SqueezeNext(chars, next) ==
    IF next # <<>> THEN next \o SqueezeNext(chars, <<>>)
    ELSE IF chars = <<>> THEN <<>>
    ELSE IF is_whitespace(Head(chars))
         THEN LET f == FindNonWhitespace(Tail(chars))
              IN  IF f.found # <<>> THEN <<SP>> \o SqueezeNext(f.rest, f.found)
                  ELSE <<>>
         ELSE <<Head(chars)>> \o SqueezeNext(Tail(chars), <<>>)

\* SqueezeWhitespace::new(s.chars()).collect()
SqueezeWhitespace(s) ==
    LET f == FindNonWhitespace(s) IN SqueezeNext(f.rest, f.found)

---------------------------------------------------------------------------
(* EscapeMarkdown: the iterator of escape_markdown.rs, run to its end.     *)

EscapedChars == {"#", "*", "\\", "_", BT}

\* EscapeNext with the backslash left out of the escaped characters
RECURSIVE EscapeNextNoBackslash(_, _)
EscapeNextNoBackslash(chars, next) ==
    IF next # <<>> THEN next \o EscapeNextNoBackslash(chars, <<>>)
    ELSE IF chars = <<>> THEN <<>>
    ELSE IF Head(chars) \in EscapedChars \ {"\\"}
         THEN <<"\\">> \o EscapeNextNoBackslash(Tail(chars), <<Head(chars)>>)
         ELSE <<Head(chars)>> \o EscapeNextNoBackslash(Tail(chars), <<>>)

EscapeForgetsBackslash(s) == EscapeNextNoBackslash(s, <<>>)

RECURSIVE EscapeNext(_, _)
EscapeNext(chars, next) ==
    IF next # <<>> THEN next \o EscapeNext(chars, <<>>)
    ELSE IF chars = <<>> THEN <<>>
    ELSE IF Head(chars) \in EscapedChars
         THEN <<"\\">> \o EscapeNext(Tail(chars), <<Head(chars)>>)
         ELSE <<Head(chars)>> \o EscapeNext(Tail(chars), <<>>)

\* EscapeMarkdown::new(chars).collect()
EscapeMarkdown(s) == EscapeNext(s, <<>>)

---------------------------------------------------------------------------
(* State and Block of state.rs.  The operators take the State `s` and the  *)
(* Block `b` they act on and return the ones they leave.  `s` carries two  *)
(* history fields beside State's five: `log`, the calls made so far by the  *)
(* running handler, and `fault`, the failed debug assertions.  `b` carries  *)
(* one, `gh`, what the Block's own history was:                             *)
(*   encl, res0    subsequent_prefix and the length of result when the      *)
(*                 Block was created                                        *)
(*   root          made by root_block                                       *)
(*   sibFlushed    the Block's previous sibling flushed non-empty text      *)
(*   flushedText   the Block itself did                                     *)
(*   childFlushed  the Block's last child did                               *)
(*   codeLast      the last of start_code ("start"), end_code ("end")       *)
(*                 called on the Block, "none" before any                   *)
(*   codeParent    the parent's in_code when the Block was created          *)
(*   pp            [on, ws]: a content push happened and only pushes        *)
(*                 followed it; whitespace ended it or was pushed since     *)
(*   rs            [on, ws, pending, pw]: push_raw_start happened and only  *)
(*                 whitespace-only or empty pushes followed it; whether any *)
(*                 whitespace was among them; pending and                   *)
(*                 pending_whitespace at the push_raw_start                 *)
(*   ini0, sub0    the State's prefixes when prefix() was called            *)

\* State::default
DefaultState ==
    [result |-> <<>>, pending |-> <<>>, initial_prefix |-> <<>>,
     subsequent_prefix |-> <<>>, gap_prefix_offset |-> 0]

NoPush == [on |-> FALSE, ws |-> FALSE]
NoRawStart == [on |-> FALSE, ws |-> FALSE, pending |-> <<>>, pw |-> FALSE]

NewHistory(s, isRoot, sib, code) ==
    [encl |-> s.subsequent_prefix, res0 |-> Len(s.result), root |-> isRoot,
     sibFlushed |-> sib, flushedText |-> FALSE, childFlushed |-> FALSE,
     codeLast |-> "none", codeParent |-> code, pp |-> NoPush, rs |-> NoRawStart,
     ini0 |-> <<>>, sub0 |-> <<>>, marks |-> <<>>]

\* any call on the Block other than push ends the runs `pp` and `rs` follow;
\* `marks` has one entry per push_raw_start not yet ended: whether pre_push has
\* written its marker
Other(b) == [b EXCEPT !.gh.pp = NoPush, !.gh.rs = NoRawStart]

\* State::root_block
root_block(s) ==
    [pending_whitespace |-> FALSE, prefixes |-> <<>>, pending_raw_start |-> <<>>,
     must_emit |-> FALSE, in_code |-> FALSE, in_item |-> FALSE,
     gh |-> NewHistory(s, TRUE, FALSE, FALSE)]

\* State::render: the pending buffer must be empty
render(s) ==
    [s EXCEPT !.fault = IF s.pending = <<>> THEN @ ELSE @ \cup {"render: pending not empty"}]

\* a fill that breaks the line at every space
FillAtSpaces(text, initial_indent, subsequent_indent) ==
    [k \in 1..Len(text) |-> IF text[k] = SP THEN NL ELSE text[k]]

\* textwrap::fill(text, Options::new(LINE_LENGTH).initial_indent(..).subsequent_indent(..))
\* for lines narrower than LINE_LENGTH, which every line of the model is: the
\* lines of the text keep their breaks, the first gets the initial indent and
\* the others the subsequent one, and trailing spaces go.
Fill(text, initial_indent, subsequent_indent) ==
    LET ls == SplitLines(text)
        line(i) == (IF i = 1 THEN initial_indent ELSE subsequent_indent) \o TrimSpaces(ls[i])
    IN  JoinLines([i \in 1..Len(ls) |-> line(i)])

\* prefix appending the initial string to the subsequent prefix
prefix_appends_initial(s, b, initial, subsequent) ==
    LET new_initial_prefix ==
            (IF s.gap_prefix_offset = 0 THEN s.subsequent_prefix ELSE s.initial_prefix)
                \o initial
    IN  [s |-> [s EXCEPT !.initial_prefix = new_initial_prefix,
                         !.subsequent_prefix = @ \o initial,
                         !.gap_prefix_offset = @ + Len(subsequent)],
         b |-> [Other(b) EXCEPT
                    !.prefixes = <<[initial |-> initial, subsequent |-> subsequent,
                                    previous |-> s.initial_prefix]>>,
                    !.gh.ini0 = s.initial_prefix,
                    !.gh.sub0 = s.subsequent_prefix]]

\* Block::prefix
prefix(s, b, initial, subsequent) ==
    LET new_initial_prefix ==
            (IF s.gap_prefix_offset = 0 THEN s.subsequent_prefix ELSE s.initial_prefix)
                \o initial
        failed == (IF b.prefixes # <<>> THEN {"prefix: prefixes set twice"} ELSE {})
                  \cup (IF Len(initial) # Len(subsequent) THEN {"prefix: widths differ"} ELSE {})
    IN  [s |-> [s EXCEPT !.initial_prefix = new_initial_prefix,
                         !.subsequent_prefix = @ \o subsequent,
                         !.gap_prefix_offset = @ + Len(subsequent),
                         !.fault = @ \cup failed],
         b |-> [Other(b) EXCEPT
                    !.prefixes = <<[initial |-> initial, subsequent |-> subsequent,
                                    previous |-> s.initial_prefix]>>,
                    !.gh.ini0 = s.initial_prefix,
                    !.gh.sub0 = s.subsequent_prefix]]

\* Block::must_emit
must_emit(s, b) ==
    [s |-> [s EXCEPT !.fault = IF b.prefixes # <<>> THEN @
                                 ELSE @ \cup {"must_emit: no prefixes"}],
     b |-> [b EXCEPT !.must_emit = TRUE]]

\* Block::start_code
start_code(b) == [b EXCEPT !.in_code = TRUE, !.gh.codeLast = "start"]

\* Block::end_code
end_code(b) == [b EXCEPT !.in_code = FALSE, !.gh.codeLast = "end"]

\* Block::pre_push
pre_push(s, b) ==
    LET space == b.pending_whitespace
                 /\ ~(s.pending = <<>> \/ EndsWith(s.pending, <<NL>>))
        s1 == IF space THEN [s EXCEPT !.pending = @ \o <<SP>>] ELSE s
        b1 == IF space THEN [b EXCEPT !.pending_whitespace = FALSE] ELSE b
    IN  IF b1.pending_raw_start # <<>>
        THEN [s |-> [s1 EXCEPT !.pending = @ \o b1.pending_raw_start[1]],
              b |-> [b1 EXCEPT !.pending_raw_start = <<>>,
                               !.gh.marks = IF @ = <<>> THEN @
                                            ELSE [@ EXCEPT ![Len(@)] = TRUE]]]
        ELSE [s |-> s1, b |-> b1]

\* push looking only at the end of the text for whitespace
push_ignores_leading(s, b, t) ==
    IF AllWhitespace(t)
    THEN [s |-> s,
          b |-> [b EXCEPT !.pending_whitespace = @ \/ t # <<>>,
                          !.gh.pp.ws = @ \/ t # <<>>,
                          !.gh.rs.ws = @ \/ t # <<>>]]
    ELSE LET p == pre_push(s, b)
             text == IF b.in_code THEN SqueezeWhitespace(t)
                     ELSE EscapeMarkdown(SqueezeWhitespace(t))
             call == [op |-> "push", t |-> t, before |-> s.pending,
                      after |-> p.s.pending \o text, in_code |-> b.in_code,
                      raw_start |-> b.pending_raw_start, gh |-> b.gh]
         IN  [s |-> [p.s EXCEPT !.pending = @ \o text, !.log = @ \o <<call>>],
              b |-> [p.b EXCEPT !.pending_whitespace = is_whitespace(Last(t)),
                                !.gh.pp = [on |-> TRUE, ws |-> is_whitespace(Last(t))],
                                !.gh.rs = NoRawStart]]

\* Block::push
push(s, b, t) ==
    IF AllWhitespace(t)
    THEN [s |-> s,
          b |-> [b EXCEPT !.pending_whitespace = @ \/ t # <<>>,
                          !.gh.pp.ws = @ \/ t # <<>>,
                          !.gh.rs.ws = @ \/ t # <<>>]]
    ELSE LET b0 == [b EXCEPT !.pending_whitespace = @ \/ is_whitespace(Head(t))]
             p == pre_push(s, b0)
             text == IF b.in_code THEN SqueezeWhitespace(t)
                     ELSE EscapeMarkdown(SqueezeWhitespace(t))
             call == [op |-> "push", t |-> t, before |-> s.pending,
                      after |-> p.s.pending \o text, in_code |-> b.in_code,
                      raw_start |-> b.pending_raw_start, gh |-> b.gh]
         IN  [s |-> [p.s EXCEPT !.pending = @ \o text, !.log = @ \o <<call>>],
              b |-> [p.b EXCEPT !.pending_whitespace = is_whitespace(Last(t)),
                                !.gh.pp = [on |-> TRUE, ws |-> is_whitespace(Last(t))],
                                !.gh.rs = NoRawStart]]

\* the string pushed as a text node is
push_raw_as_text(s, b, t) == push(s, b, t)

\* Block::push_raw
push_raw(s, b, t) ==
    LET p == pre_push(s, b)
    IN  [s |-> [p.s EXCEPT !.pending = @ \o t], b |-> Other(p.b)]

\* Block::push_raw_start
push_raw_start(s, b, m) ==
    [s |-> s,
     b |-> [b EXCEPT !.pending_raw_start = <<m>>,
                     !.gh.marks = Append(@, FALSE),
                     !.gh.pp = NoPush,
                     !.gh.rs = [on |-> TRUE, ws |-> FALSE, pending |-> s.pending,
                                pw |-> b.pending_whitespace]]]

\* push_raw_end writing its marker whatever is pending
push_raw_end_always(s, b, m) ==
    LET s1 == [s EXCEPT !.pending = @ \o m]
        call == [op |-> "push_raw_end", m |-> m, before |-> s.pending,
                 after |-> s1.pending, pw |-> b.pending_whitespace, gh |-> b.gh]
    IN  [s |-> [s1 EXCEPT !.log = @ \o <<call>>],
         b |-> Other([b EXCEPT !.pending_raw_start = <<>>,
                               !.gh.marks = IF @ = <<>> THEN @
                                            ELSE SubSeq(@, 1, Len(@) - 1)])]

\* Block::push_raw_end
push_raw_end(s, b, m) ==
    LET s1 == IF b.pending_raw_start # <<>> THEN s ELSE [s EXCEPT !.pending = @ \o m]
        call == [op |-> "push_raw_end", m |-> m, before |-> s.pending,
                 after |-> s1.pending, pw |-> b.pending_whitespace, gh |-> b.gh]
    IN  [s |-> [s1 EXCEPT !.log = @ \o <<call>>],
         b |-> Other([b EXCEPT !.pending_raw_start = <<>>,
                               !.gh.marks = IF @ = <<>> THEN @
                                            ELSE SubSeq(@, 1, Len(@) - 1)])]

\* Block::newline
newline(s, b) ==
    [s |-> [s EXCEPT !.pending = @ \o <<NL>>],
     b |-> Other([b EXCEPT !.pending_whitespace = FALSE])]

\* push_gap writing the whole subsequent prefix on the blank line
push_gap_whole_prefix(s, b) ==
    IF s.result = <<>> THEN s
    ELSE IF ~b.in_item
    THEN [s EXCEPT !.result = @ \o <<NL>> \o trim_end(s.subsequent_prefix) \o <<NL>>]
    ELSE [s EXCEPT !.result = @ \o <<NL>>]

\* Block::push_gap
push_gap(s, b) ==
    IF s.result = <<>> THEN s
    ELSE IF ~b.in_item
    THEN [s EXCEPT !.result =
              @ \o <<NL>>
                \o trim_end(SubSeq(s.subsequent_prefix, 1,
                                   Len(s.subsequent_prefix) - s.gap_prefix_offset))
                \o <<NL>>]
    ELSE [s EXCEPT !.result = @ \o <<NL>>]

\* push_pending leaving the flushed text in the pending buffer
push_pending_keeps(s, b, drop) ==
    IF s.pending # <<>>
    THEN LET g == push_gap(s, b)
             filled == Fill(s.pending,
                            IF s.gap_prefix_offset = 0 THEN s.subsequent_prefix
                            ELSE s.initial_prefix,
                            s.subsequent_prefix)
             call == [op |-> "flush", before |-> s.result, after |-> g.result \o filled,
                      filled |-> filled, in_item |-> b.in_item, gh |-> b.gh]
         IN  [s |-> [g EXCEPT !.result = @ \o filled,
                              !.gap_prefix_offset = 0,
                              !.log = @ \o <<call>>],
              b |-> [Other(b) EXCEPT !.pending_whitespace = FALSE,
                                     !.gh.flushedText = TRUE,
                                     !.gh.childFlushed = FALSE]]
    ELSE IF drop /\ b.must_emit /\ s.gap_prefix_offset # 0
    THEN LET g == push_gap(s, b)
         IN  [s |-> [g EXCEPT !.result = @ \o trim_end(s.initial_prefix)], b |-> Other(b)]
    ELSE [s |-> s, b |-> Other(b)]

\* Block::push_pending
push_pending(s, b, drop) ==
    IF s.pending # <<>>
    THEN LET g == push_gap(s, b)
             filled == Fill(s.pending,
                            IF s.gap_prefix_offset = 0 THEN s.subsequent_prefix
                            ELSE s.initial_prefix,
                            s.subsequent_prefix)
             call == [op |-> "flush", before |-> s.result, after |-> g.result \o filled,
                      filled |-> filled, in_item |-> b.in_item, gh |-> b.gh]
         IN  [s |-> [g EXCEPT !.result = @ \o filled,
                              !.gap_prefix_offset = 0,
                              !.pending = <<>>,
                              !.log = @ \o <<call>>],
              b |-> [Other(b) EXCEPT !.pending_whitespace = FALSE,
                                     !.gh.flushedText = TRUE,
                                     !.gh.childFlushed = FALSE]]
    ELSE IF drop /\ b.must_emit /\ s.gap_prefix_offset # 0
    THEN LET g == push_gap(s, b)
         IN  [s |-> [g EXCEPT !.result = @ \o trim_end(s.initial_prefix)], b |-> Other(b)]
    ELSE [s |-> s, b |-> Other(b)]

\* new_block_inner starting the new Block outside code mode
new_block_inner_plain(s, b, in_item) ==
    LET p == push_pending(s, b, FALSE)
    IN  [s |-> p.s,
         b |-> p.b,
         nb |-> [pending_whitespace |-> FALSE, prefixes |-> <<>>,
                 pending_raw_start |-> <<>>, must_emit |-> FALSE,
                 in_code |-> FALSE, in_item |-> in_item,
                 gh |-> NewHistory(p.s, FALSE, p.b.gh.childFlushed, b.in_code)]]

\* Block::new_block_inner: the State, the parent Block and the new Block
new_block_inner(s, b, in_item) ==
    LET p == push_pending(s, b, FALSE)
    IN  [s |-> p.s,
         b |-> p.b,
         nb |-> [pending_whitespace |-> FALSE, prefixes |-> <<>>,
                 pending_raw_start |-> <<>>, must_emit |-> FALSE,
                 in_code |-> b.in_code, in_item |-> in_item,
                 gh |-> NewHistory(p.s, FALSE, p.b.gh.childFlushed, b.in_code)]]

\* Block::new_block
new_block(s, b) == new_block_inner(s, b, b.in_item)

\* Block::new_item
new_item(s, b) == new_block_inner(s, b, TRUE)

\* a drop that leaves gap_prefix_offset as it finds it
drop_keeps_offset(s, b) ==
    LET p == push_pending(s, b, TRUE)
        t == p.s
    IN  IF b.prefixes = <<>>
        THEN [t EXCEPT !.log = @ \o <<[op |-> "drop", prefixed |-> FALSE,
                                       must_emit |-> b.must_emit,
                                       after |-> t.result, gh |-> b.gh]>>]
        ELSE LET pf == b.prefixes[1]
                 failed ==
                     (IF EndsWith(t.initial_prefix, pf.initial) THEN {}
                      ELSE {"drop: initial_prefix"})
                     \cup (IF EndsWith(t.subsequent_prefix, pf.subsequent) THEN {}
                           ELSE {"drop: subsequent_prefix"})
                 u == [t EXCEPT
                          !.initial_prefix = pf.previous,
                          !.subsequent_prefix = SubSeq(@, 1, Len(@) - Len(pf.subsequent)),
                          !.fault = @ \cup failed]
             IN  [u EXCEPT !.log = @ \o <<[op |-> "drop", prefixed |-> TRUE,
                                           must_emit |-> b.must_emit,
                                           own |-> pf,
                                           initial_before |-> t.initial_prefix,
                                           subsequent_before |-> t.subsequent_prefix,
                                           initial_after |-> u.initial_prefix,
                                           subsequent_after |-> u.subsequent_prefix,
                                           after |-> t.result, gh |-> b.gh]>>]

\* Drop for Block: the State the Block leaves
drop(s, b) ==
    LET p == push_pending(s, b, TRUE)
        t == p.s
    IN  IF b.prefixes = <<>>
        THEN [t EXCEPT !.log = @ \o <<[op |-> "drop", prefixed |-> FALSE,
                                       must_emit |-> b.must_emit,
                                       after |-> t.result, gh |-> b.gh]>>]
        ELSE LET pf == b.prefixes[1]
                 failed ==
                     (IF EndsWith(t.initial_prefix, pf.initial) THEN {}
                      ELSE {"drop: initial_prefix"})
                     \cup (IF EndsWith(t.subsequent_prefix, pf.subsequent) THEN {}
                           ELSE {"drop: subsequent_prefix"})
                 u == [t EXCEPT
                          !.gap_prefix_offset =
                              IF @ >= Len(pf.initial) THEN @ - Len(pf.initial) ELSE 0,
                          !.initial_prefix = pf.previous,
                          !.subsequent_prefix = SubSeq(@, 1, Len(@) - Len(pf.subsequent)),
                          !.fault = @ \cup failed]
             IN  [u EXCEPT !.log = @ \o <<[op |-> "drop", prefixed |-> TRUE,
                                           must_emit |-> b.must_emit,
                                           own |-> pf,
                                           initial_before |-> t.initial_prefix,
                                           subsequent_before |-> t.subsequent_prefix,
                                           initial_after |-> u.initial_prefix,
                                           subsequent_after |-> u.subsequent_prefix,
                                           after |-> t.result, gh |-> b.gh]>>]

---------------------------------------------------------------------------
(* RawBlock of state.rs.  `rb` is the RawBlock: [at_sol].                  *)

\* Block::new_raw_block: the State, the parent Block and the RawBlock
new_raw_block(s, b) ==
    LET p == push_pending(s, b, FALSE)
    IN  [s |-> push_gap(p.s, p.b), b |-> p.b, rb |-> [at_sol |-> TRUE]]

\* handle_prefix writing the prefix as it is, also on an empty line
handle_prefix_untrimmed(s, rb, trim) ==
    IF rb.at_sol
    THEN LET pfx == IF s.gap_prefix_offset = 0 THEN s.subsequent_prefix
                    ELSE s.initial_prefix
         IN  [s EXCEPT !.gap_prefix_offset = 0, !.result = @ \o pfx]
    ELSE s

\* RawBlock::handle_prefix
handle_prefix(s, rb, trim) ==
    IF rb.at_sol
    THEN LET pfx == IF s.gap_prefix_offset = 0 THEN s.subsequent_prefix
                    ELSE s.initial_prefix
         IN  [s EXCEPT !.gap_prefix_offset = 0,
                       !.result = @ \o (IF trim THEN trim_end(pfx) ELSE pfx)]
    ELSE s

\* str::split_inclusive('\n'): every piece but the last ends with the newline
RECURSIVE SplitInclusive(_)
SplitInclusive(t) ==
    LET nls == {i \in 1..Len(t) : t[i] = NL}
    IN  IF t = <<>> THEN <<>>
        ELSE IF nls = {} THEN <<t>>
        ELSE LET i == CHOOSE k \in nls : \A j \in nls : k <= j
             IN  <<SubSeq(t, 1, i)>> \o SplitInclusive(SubSeq(t, i + 1, Len(t)))

RECURSIVE RawPushLines(_, _, _)
RawPushLines(s, rb, lines) ==
    IF lines = <<>> THEN [s |-> s, rb |-> rb]
    ELSE LET line == Head(lines)
             h == handle_prefix(s, rb, line = <<NL>>)
         IN  RawPushLines([h EXCEPT !.result = @ \o line],
                          [rb EXCEPT !.at_sol = EndsWith(line, <<NL>>)],
                          Tail(lines))

\* RawBlock::push
raw_push(s, rb, t) ==
    LET r == RawPushLines(s, rb, SplitInclusive(t))
        call == [op |-> "raw_push", t |-> t, before |-> s.result,
                 after |-> r.s.result, at_sol |-> rb.at_sol,
                 initial |-> s.initial_prefix, subsequent |-> s.subsequent_prefix,
                 gap |-> s.gap_prefix_offset]
    IN  [s |-> [r.s EXCEPT !.log = @ \o <<call>>], rb |-> r.rb]

\* RawBlock::newline
raw_newline(s, rb) ==
    LET h == handle_prefix(s, rb, TRUE)
    IN  [s |-> [h EXCEPT !.result = @ \o <<NL>>], rb |-> [rb EXCEPT !.at_sol = TRUE]]

\* ensure_newline ending the line whether it is ended or not
ensure_newline_always(s, rb) == raw_newline(s, rb)

\* RawBlock::ensure_newline
ensure_newline(s, rb) ==
    LET r == IF ~rb.at_sol THEN raw_newline(s, rb) ELSE [s |-> s, rb |-> rb]
        call == [op |-> "ensure_newline", before |-> s.result, after |-> r.s.result,
                 at_sol |-> rb.at_sol, subsequent |-> s.subsequent_prefix]
    IN  [s |-> [r.s EXCEPT !.log = @ \o <<call>>], rb |-> r.rb]

---------------------------------------------------------------------------
(* The node renderer of html.rs.  One action per arm of render_node_inner; *)
(* an arm that renders the element's children is an Enter action (what it  *)
(* does before them) and an Exit action (what it does after them, the      *)
(* Blocks it made going out of scope included).                            *)

Cur ==
    [result |-> result, pending |-> pending, initial_prefix |-> initial_prefix,
     subsequent_prefix |-> subsequent_prefix, gap_prefix_offset |-> gap_prefix_offset,
     log |-> <<>>, fault |-> fault]

\* the State s is the State from now on (s is worked out once)
Set(s) ==
    \E v \in {s} :
        /\ result' = v.result
        /\ pending' = v.pending
        /\ initial_prefix' = v.initial_prefix
        /\ subsequent_prefix' = v.subsequent_prefix
        /\ gap_prefix_offset' = v.gap_prefix_offset
        /\ log' = v.log
        /\ fault' = v.fault

Frame(kind) ==
    [kind |-> kind, child_count |-> 0, item_count |-> 0, num_width |-> 0,
     href |-> "none", level |-> 0, at_sol |-> FALSE,
     res0 |-> 0, encl |-> <<>>, first |-> <<>>]

Top == blocks[Len(blocks)]
Below == SubSeq(blocks, 1, Len(blocks) - 1)
Put(b) == Below \o <<b>>
TopFrame == open[Len(open)]
TopKind == IF open = <<>> THEN "root" ELSE TopFrame.kind
Pop(stack) == SubSeq(stack, 1, Len(stack) - 1)

\* the Blocks left when the innermost one, a child of the one below it, is
\* dropped in State s
PopChild(s) ==
    LET parent == blocks[Len(blocks) - 1]
    IN  SubSeq(blocks, 1, Len(blocks) - 2)
            \o <<[parent EXCEPT !.gh.childFlushed = Top.gh.flushedText \/ s.pending # <<>>]>>

\* the li children an open ol has counted and not yet rendered
RECURSIVE Owed(_)
Owed(stack) ==
    IF stack = <<>> THEN 0
    ELSE (Head(stack).child_count - Head(stack).item_count) + Owed(Tail(stack))

Walking == pc = "walk"
CanVisit == Walking /\ budget - Owed(open) >= 1
CanEnter == CanVisit /\ Len(open) < MaxDepth
\* the children of this element go through render_node_inner
InFlow == TopKind \notin {"ul", "ol", "pre"}

Visited == budget' = budget - 1 /\ UNCHANGED <<pc, output, txt, tbl>>
Left == UNCHANGED <<budget, pc, output, txt, tbl>>

\* html.rs: Node::Text(t) => block.push(t)
VisitText(t) ==
    /\ CanVisit /\ InFlow
    /\ LET r == push(Cur, Top, t)
       IN  Set(r.s) /\ blocks' = Put(r.b)
    /\ UNCHANGED <<open, saved>>
    /\ Visited

\* "script" | "style" | "template" | "title", a node that is neither text nor
\* element, an img without src, an ol without li children,
\* and a child of ol or ul that is no li: nothing is done, no child is visited
VisitSkipped ==
    /\ CanVisit /\ TopKind # "pre"
    /\ Set(Cur)
    /\ UNCHANGED <<blocks, open, saved>>
    /\ Visited

\* an a without href that writes an empty link
VisitAWritesBrackets ==
    /\ CanVisit /\ InFlow
    /\ \E r \in {push_raw(Cur, Top, <<"[", "]">>)} :
           /\ Set([r.s EXCEPT !.log = <<[op |-> "a_none", pending |-> pending,
                                         result |-> result, blocks |-> blocks,
                                         open |-> open]>>])
           /\ blocks' = Put(r.b)
    /\ UNCHANGED <<open, saved>>
    /\ Visited

\* "a" without an href: `if let Some(link) = e.attr("href")` fails, the arm is
\* over; no child is visited. The call is recorded with what it found.
VisitAWithoutHref ==
    /\ CanVisit /\ InFlow
    /\ \E s \in {Cur} :
           Set([s EXCEPT !.log = <<[op |-> "a_none", pending |-> pending,
                                   result |-> result, blocks |-> blocks,
                                   open |-> open]>>])
    /\ UNCHANGED <<blocks, open, saved>>
    /\ Visited

\* any other element: its children are rendered into the same Block
EnterOther ==
    /\ CanEnter /\ InFlow
    /\ Set(Cur)
    /\ open' = open \o <<Frame("other")>>
    /\ UNCHANGED <<blocks, saved>>
    /\ Visited

ExitOther ==
    /\ Walking /\ TopKind = "other"
    /\ Set(Cur)
    /\ open' = Pop(open)
    /\ UNCHANGED <<blocks, saved>>
    /\ Left

\* "br"
VisitBr ==
    /\ CanVisit /\ InFlow
    /\ LET r == newline(Cur, Top)
       IN  Set(r.s) /\ blocks' = Put(r.b)
    /\ UNCHANGED <<open, saved>>
    /\ Visited

Marker(kind) ==
    CASE kind = "strong" -> <<"*", "*">>
      [] kind = "em" -> <<"_">>
      [] kind = "code" -> <<BT>>

\* "b" | "strong", "em" | "i" and "code", before the children
EnterInline(kind) ==
    /\ CanEnter /\ InFlow
    /\ LET r == push_raw_start(Cur, Top, Marker(kind))
           b == IF kind = "code" THEN start_code(r.b) ELSE r.b
       IN  Set(r.s) /\ blocks' = Put(b)
    /\ open' = open \o <<Frame(kind)>>
    /\ UNCHANGED saved
    /\ Visited

EnterStrong == EnterInline("strong")
EnterEm == EnterInline("em")
EnterCode == EnterInline("code")

\* the same arms, after the children
ExitInline(kind) ==
    /\ Walking /\ TopKind = kind
    /\ LET b == IF kind = "code" THEN end_code(Top) ELSE Top
           r == push_raw_end(Cur, b, Marker(kind))
       IN  Set(r.s) /\ blocks' = Put(r.b)
    /\ open' = Pop(open)
    /\ UNCHANGED saved
    /\ Left

ExitStrong == ExitInline("strong")
ExitEm == ExitInline("em")
ExitCode == ExitInline("code")

\* "div" | "p", before the children
EnterDiv ==
    /\ CanEnter /\ InFlow
    /\ LET r == new_block(Cur, Top)
       IN  Set(r.s) /\ blocks' = Put(r.b) \o <<r.nb>>
    /\ open' = open \o <<Frame("div")>>
    /\ UNCHANGED saved
    /\ Visited

\* "blockquote", before the children
EnterBlockquote ==
    /\ CanEnter /\ InFlow
    /\ LET r == new_block(Cur, Top)
           q == prefix(r.s, r.nb, <<">", SP>>, <<">", SP>>)
       IN  Set(q.s) /\ blocks' = Put(r.b) \o <<q.b>>
    /\ open' = open \o <<Frame("blockquote")>>
    /\ UNCHANGED saved
    /\ Visited

\* "ul", before the li children
EnterUl ==
    /\ CanEnter /\ InFlow
    /\ LET r == new_block(Cur, Top)
       IN  Set(r.s) /\ blocks' = Put(r.b) \o <<r.nb>>
    /\ open' = open \o <<Frame("ul")>>
    /\ UNCHANGED saved
    /\ Visited

\* the width of a one-digit count, whatever the count
DigitsOfOne(n) == 1

\* usize::ilog10(n) + 1
RECURSIVE Digits(_)
Digits(n) == IF n < 10 THEN 1 ELSE 1 + Digits(n \div 10)

DigitChars == <<"0", "1", "2", "3", "4", "5", "6", "7", "8", "9">>

RECURSIVE Decimal(_)
Decimal(n) ==
    IF n < 10 THEN <<DigitChars[n + 1]>>
    ELSE Decimal(n \div 10) \o <<DigitChars[(n % 10) + 1]>>

\* format!("{n:width$}. "): the number right-aligned in the field
ItemPrefix(n, width) ==
    LET d == Decimal(n)
    IN  Repeat(SP, IF Len(d) < width THEN width - Len(d) ELSE 0) \o d \o <<".", SP>>

\* format!("{:width$}  ", "")
ItemIndent(width) == Repeat(SP, width + 2)

\* "ol" with child_count li children, child_count > 0, before them
EnterOl(child_count) ==
    /\ CanEnter /\ InFlow
    /\ Len(open) + 2 <= MaxDepth
    /\ budget - Owed(open) >= 1 + child_count
    /\ LET r == new_block(Cur, Top)
       IN  Set(r.s) /\ blocks' = Put(r.b) \o <<r.nb>>
    /\ open' = open \o <<[Frame("ol") EXCEPT !.child_count = child_count,
                                              !.num_width = Digits(child_count)]>>
    /\ UNCHANGED saved
    /\ Visited

\* one li child of an ol or ul, before its children
EnterLi ==
    /\ Walking /\ budget >= 1 /\ Len(open) < MaxDepth
    /\ TopKind \in {"ul", "ol"}
    /\ TopKind = "ul" => CanVisit
    /\ TopKind = "ol" => TopFrame.item_count < TopFrame.child_count
    /\ LET f == TopFrame
           item_count == f.item_count + 1
           initial == IF f.kind = "ol" THEN ItemPrefix(item_count, f.num_width)
                      ELSE <<"*", SP>>
           subsequent == IF f.kind = "ol" THEN ItemIndent(f.num_width) ELSE <<SP, SP>>
           r == new_item(Cur, Top)
           q == prefix(r.s, r.nb, initial, subsequent)
           m == must_emit(q.s, q.b)
       IN  /\ Set(m.s)
           /\ blocks' = Put(r.b) \o <<m.b>>
           /\ open' = Pop(open) \o <<[f EXCEPT !.item_count = item_count], Frame("li")>>
    /\ UNCHANGED saved
    /\ Visited

\* the Block of a div, p, blockquote, li, ul or ol goes out of scope
ExitBlock(kind) ==
    /\ Walking /\ TopKind = kind
    /\ kind = "ol" => TopFrame.item_count = TopFrame.child_count
    /\ Set(drop(Cur, Top))
    /\ blocks' = PopChild(Cur)
    /\ open' = Pop(open)
    /\ UNCHANGED saved
    /\ Left

ExitDiv == ExitBlock("div")
ExitBlockquote == ExitBlock("blockquote")
ExitUl == ExitBlock("ul")
ExitOl == ExitBlock("ol")
ExitLi == ExitBlock("li")

\* the State a sub-render suspends
Suspended ==
    [result |-> result, pending |-> pending, initial_prefix |-> initial_prefix,
     subsequent_prefix |-> subsequent_prefix, gap_prefix_offset |-> gap_prefix_offset]

\* State::default() for a sub-render; the history goes on
SubState == DefaultState @@ [log |-> <<>>, fault |-> fault]

\* the suspended State again, after the sub-render left State t
Resume(t) == saved[Len(saved)] @@ [log |-> t.log, fault |-> t.fault]

RECURSIVE push_raws(_, _, _)
push_raws(s, b, ts) ==
    IF ts = <<>> THEN [s |-> s, b |-> b]
    ELSE LET r == push_raw(s, b, Head(ts)) IN push_raws(r.s, r.b, Tail(ts))

\* what an href is to the page's URL: "page" joins to another page, "anchor"
\* to an anchor of this page, "bad" does not join
Hrefs == {"page", "anchor", "bad"}

\* the joined URL as a string, and the attribute as written
Joined(href) == IF href = "anchor" THEN <<"u", "#", "x">> ELSE <<"u", "/", "y">>
Literal(href) == <<"?">>

\* url.make_relative(&abs_link) is empty or starts with '#'
is_anchor(href) == href = "anchor"

\* "a" with an href, before the children: they render into a State of their own
EnterA(href) ==
    /\ CanEnter /\ InFlow
    /\ Set(SubState)
    /\ blocks' = blocks \o <<root_block(DefaultState)>>
    /\ open' = open \o <<[Frame("a") EXCEPT !.href = href]>>
    /\ saved' = saved \o <<Suspended>>
    /\ Visited

\* "a" with an href, after the children
ExitA ==
    /\ Walking /\ TopKind = "a"
    /\ \E sub \in {render(drop(Cur, Top))} :
       LET text == sub.result
           href == TopFrame.href
           some == IF href = "bad" THEN TRUE
                   ELSE ~is_anchor(href)
                        \/ Len(text) > (IF StartsWith(text, <<"\\">>) THEN 2 ELSE 1)
           destination == IF href = "bad" THEN Literal(href) ELSE Joined(href)
           block == blocks[Len(blocks) - 1]
           r == IF some
                THEN push_raws(Resume(sub), block,
                               <<(<<"[">>), text, <<"]", "(">>, destination, <<")">>>>)
                ELSE [s |-> Resume(sub), b |-> block]
           call == [op |-> "a", href |-> href, text |-> text,
                    before |-> Resume(sub).pending, after |-> r.s.pending]
       IN  Set([r.s EXCEPT !.log = @ \o <<call>>])
           /\ blocks' = SubSeq(blocks, 1, Len(blocks) - 2) \o <<r.b>>
    /\ open' = Pop(open)
    /\ saved' = Pop(saved)
    /\ Left

\* UnicodeWidthStr::width of a rendered string: a line break has none
Width(t) == Cardinality({i \in 1..Len(t) : t[i] # NL})

\* "h1" .. "h6", before the children: they render into a State of their own
EnterH(level) ==
    /\ CanEnter /\ InFlow
    /\ Set(SubState)
    /\ blocks' = blocks \o <<root_block(DefaultState)>>
    /\ open' = open \o <<[Frame("h") EXCEPT !.level = level]>>
    /\ saved' = saved \o <<Suspended>>
    /\ Visited

\* "h1" .. "h6", after the children
ExitH ==
    /\ Walking /\ TopKind = "h"
    /\ \E sub \in {render(drop(Cur, Top))} :
       LET header == sub.result
           level == TopFrame.level
           outer == blocks[Len(blocks) - 1]
       IN  IF header # <<>>
           THEN \E n \in {new_block(Resume(sub), outer)} :
                \E a \in {push_raw(n.s, n.nb, header)} :
                \E c \in {newline(a.s, a.b)} :
                LET body == IF level <= 2
                            THEN push_raw(c.s, c.b,
                                          Repeat(IF level = 1 THEN "=" ELSE "-",
                                                 Min(Width(header), LINE_LENGTH)))
                            ELSE push_raws(n.s, n.nb,
                                           <<Repeat("#", level) \o <<SP>>, header>>)
                    parent == [n.b EXCEPT !.gh.childFlushed = TRUE]
                IN  Set(drop(body.s, body.b))
                    /\ blocks' = SubSeq(blocks, 1, Len(blocks) - 2) \o <<parent>>
           ELSE Set(Resume(sub))
                /\ blocks' = SubSeq(blocks, 1, Len(blocks) - 2) \o <<outer>>
    /\ open' = Pop(open)
    /\ saved' = Pop(saved)
    /\ Left

\* "img" with a src: src joins to the page's URL or, "bad", does not
VisitImg(src, alt) ==
    /\ CanVisit /\ InFlow
    /\ LET a == push_raw(Cur, Top, <<"!", "[">>)
           c == push(a.s, a.b, alt)
           r == push_raws(c.s, c.b,
                          <<(<<"]", "(">>),
                            IF src = "bad" THEN Literal(src) ELSE Joined(src),
                            <<")">>>>)
       IN  Set(r.s) /\ blocks' = Put(r.b)
    /\ UNCHANGED <<open, saved>>
    /\ Visited

Fence == <<BT, BT, BT>>

\* "pre", before the descendants; lang is the language of the one code
\* descendant's class, <<>> when there is none
EnterPre(lang) ==
    /\ CanEnter /\ InFlow
    /\ \E n \in {new_raw_block(Cur, Top)} :
       \E a \in {raw_push(n.s, n.rb, Fence)} :
       \E c \in {raw_push(a.s, a.rb, lang)} :
       \E r \in {raw_newline(c.s, c.rb)} :
           /\ Set(r.s)
           /\ blocks' = Put(n.b)
           /\ open' = open \o <<[Frame("pre") EXCEPT
                                     !.at_sol = r.rb.at_sol,
                                     !.res0 = Len(n.s.result),
                                     !.encl = n.s.subsequent_prefix,
                                     !.first = IF n.s.gap_prefix_offset = 0
                                               THEN n.s.subsequent_prefix
                                               ELSE n.s.initial_prefix]>>
    /\ UNCHANGED saved
    /\ Visited

\* "pre": a text node among the descendants
PreText(t) ==
    /\ CanVisit /\ TopKind = "pre"
    /\ LET r == raw_push(Cur, [at_sol |-> TopFrame.at_sol], t)
       IN  Set(r.s) /\ open' = Pop(open) \o <<[TopFrame EXCEPT !.at_sol = r.rb.at_sol]>>
    /\ UNCHANGED <<blocks, saved>>
    /\ Visited

\* "pre": a br among the descendants
PreBr ==
    /\ CanVisit /\ TopKind = "pre"
    /\ LET r == raw_newline(Cur, [at_sol |-> TopFrame.at_sol])
       IN  Set(r.s) /\ open' = Pop(open) \o <<[TopFrame EXCEPT !.at_sol = r.rb.at_sol]>>
    /\ UNCHANGED <<blocks, saved>>
    /\ Visited

\* "pre": any other descendant
PreOther ==
    /\ CanVisit /\ TopKind = "pre"
    /\ Set(Cur)
    /\ UNCHANGED <<blocks, open, saved>>
    /\ Visited

\* "pre", after the descendants
ExitPre ==
    /\ Walking /\ TopKind = "pre"
    /\ \E e \in {ensure_newline(Cur, [at_sol |-> TopFrame.at_sol])} :
       LET r == raw_push(e.s, e.rb, Fence)
           call == [op |-> "pre", res0 |-> TopFrame.res0, encl |-> TopFrame.encl,
                    first |-> TopFrame.first, after |-> r.s.result]
       IN  Set([r.s EXCEPT !.log = @ \o <<call>>])
    /\ blocks' = Put(Other(Top))
    /\ open' = Pop(open)
    /\ UNCHANGED saved
    /\ Left

\* render_node: the root Block goes out of scope and State::render returns
Finish ==
    /\ Walking /\ open = <<>>
    /\ LET s == render(drop(Cur, Top))
       IN  Set(s) /\ output' = s.result
    /\ blocks' = <<>>
    /\ pc' = "done"
    /\ UNCHANGED <<open, saved, budget, txt, tbl>>

---------------------------------------------------------------------------
(* The inputs.                                                             *)

A == "a"
STAR == "*"

\* text nodes
Texts == {<<A>>, <<SP>>, <<STAR>>}
BlockTexts == {<<A>>}
InlineTexts == {<<A>>, <<SP>>, <<STAR>>, <<SP, A>>, <<A, SP>>, <<A, NL, SP, A>>}
PreTexts == {<<A>>, <<SP, A, NL>>}
\* the src and alt of an img
Imgs == {<<"page", <<STAR>>>>, <<"bad", <<>>>>}
Langs == {<<>>, <<"l">>}
Levels == {1, 3}

NoText == [input |-> <<>>, stage |-> "none", squeezed |-> <<>>, escaped |-> <<>>,
           again |-> <<>>]

NoTable == [stage |-> "none"]

InitWalk(nodes) ==
    /\ result = <<>>
    /\ pending = <<>>
    /\ initial_prefix = <<>>
    /\ subsequent_prefix = <<>>
    /\ gap_prefix_offset = 0
    /\ blocks = <<root_block(DefaultState)>>
    /\ open = <<>>
    /\ saved = <<>>
    /\ budget = nodes
    /\ pc = "walk"
    /\ output = <<>>
    /\ log = <<>>
    /\ fault = {}
    /\ txt = NoText
    /\ tbl = NoTable

\* render_node on every tree of at most MaxNodes nodes
Init == InitWalk(MaxNodes)

Next ==
    \/ \E t \in Texts : VisitText(t)
    \/ VisitSkipped
    \/ EnterOther \/ ExitOther
    \/ VisitBr
    \/ EnterStrong \/ ExitStrong
    \/ EnterEm \/ ExitEm
    \/ EnterCode \/ ExitCode
    \/ EnterDiv \/ ExitDiv
    \/ EnterBlockquote \/ ExitBlockquote
    \/ EnterUl \/ ExitUl
    \/ \E n \in 1..MaxItems : EnterOl(n)
    \/ ExitOl
    \/ EnterLi \/ ExitLi
    \/ VisitAWithoutHref
    \/ \E h \in Hrefs : EnterA(h)
    \/ ExitA
    \/ \E l \in Levels : EnterH(l)
    \/ ExitH
    \/ \E i \in Imgs : VisitImg(i[1], i[2])
    \/ \E l \in Langs : EnterPre(l)
    \/ \E t \in PreTexts : PreText(t)
    \/ PreBr \/ PreOther \/ ExitPre
    \/ Finish

Spec == Init /\ [][Next]_vars

\* the same on the trees of block elements: at most MaxBlockNodes nodes
InitBlocks == InitWalk(MaxBlockNodes)

NextBlocks ==
    \/ \E t \in BlockTexts : VisitText(t)
    \/ VisitBr
    \/ EnterDiv \/ ExitDiv
    \/ EnterBlockquote \/ ExitBlockquote
    \/ EnterUl \/ ExitUl
    \/ \E n \in 1..MaxItems : EnterOl(n)
    \/ ExitOl
    \/ EnterLi \/ ExitLi
    \/ Finish

SpecBlocks == InitBlocks /\ [][NextBlocks]_vars

\* and on the trees of inline elements: at most MaxInlineNodes nodes
InitInline == InitWalk(MaxInlineNodes)

NextInline ==
    \/ \E t \in InlineTexts : VisitText(t)
    \/ VisitSkipped
    \/ EnterOther \/ ExitOther
    \/ VisitBr
    \/ EnterStrong \/ ExitStrong
    \/ EnterEm \/ ExitEm
    \/ EnterCode \/ ExitCode
    \/ EnterDiv \/ ExitDiv
    \/ Finish

SpecInline == InitInline /\ [][NextInline]_vars

\* text nodes of a pre: with a line break inside, at the end, and an empty line
RawTexts == {<<A>>, <<SP, A, NL>>, <<A, NL, NL, A>>}

\* and on the trees with pre regions in blockquotes and list items: at most
\* MaxPreNodes nodes
InitPre == InitWalk(MaxPreNodes)

NextPre ==
    \/ \E t \in BlockTexts : VisitText(t)
    \/ EnterBlockquote \/ ExitBlockquote
    \/ EnterUl \/ ExitUl
    \/ EnterLi \/ ExitLi
    \/ \E l \in Langs : EnterPre(l)
    \/ \E t \in RawTexts : PreText(t)
    \/ PreBr \/ PreOther \/ ExitPre
    \/ Finish

SpecPre == InitPre /\ [][NextPre]_vars

\* and on the trees of ordered lists of up to MaxOlItems items: at most
\* MaxOlNodes nodes
InitOl == InitWalk(MaxOlNodes)

NextOl ==
    \/ \E n \in 1..MaxOlItems : EnterOl(n)
    \/ ExitOl
    \/ EnterLi \/ ExitLi
    \/ Finish

SpecOl == InitOl /\ [][NextOl]_vars

---------------------------------------------------------------------------
(* The squeezer and the escaper on their own, as Block::push composes      *)
(* them: every string of at most MaxLen characters is squeezed, and the    *)
(* squeezed string is escaped and squeezed again.                          *)

TextAlphabet == {A, "b", SP, NL, ZWSP, STAR, "\\"}

Strings(n) == UNION {[1..k -> TextAlphabet] : k \in 0..n}

InitText ==
    /\ result = <<>>
    /\ pending = <<>>
    /\ initial_prefix = <<>>
    /\ subsequent_prefix = <<>>
    /\ gap_prefix_offset = 0
    /\ blocks = <<>>
    /\ open = <<>>
    /\ saved = <<>>
    /\ budget = 0
    /\ pc = "text"
    /\ output = <<>>
    /\ log = <<>>
    /\ fault = {}
    /\ txt \in {[NoText EXCEPT !.input = t, !.stage = "input"] : t \in Strings(MaxLen)}
    /\ tbl = NoTable

Frozen ==
    UNCHANGED <<result, pending, initial_prefix, subsequent_prefix, gap_prefix_offset,
                blocks, open, saved, budget, pc, output, log, fault, tbl>>

\* SqueezeWhitespace::new(s.chars())
Squeeze ==
    /\ pc = "text" /\ txt.stage = "input"
    /\ txt' = [txt EXCEPT !.squeezed = SqueezeWhitespace(txt.input), !.stage = "squeezed"]
    /\ Frozen

\* EscapeMarkdown::new(SqueezeWhitespace::new(s.chars()))
Escape ==
    /\ pc = "text" /\ txt.stage = "squeezed"
    /\ txt' = [txt EXCEPT !.escaped = EscapeMarkdown(txt.squeezed), !.stage = "escaped"]
    /\ Frozen

\* the squeezer on its own output
SqueezeAgain ==
    /\ pc = "text" /\ txt.stage = "squeezed"
    /\ txt' = [txt EXCEPT !.again = SqueezeWhitespace(txt.squeezed), !.stage = "again"]
    /\ Frozen

NextText == Squeeze \/ Escape \/ SqueezeAgain

SpecText == InitText /\ [][NextText]_vars

---------------------------------------------------------------------------
(* The table layout engine of src/html/table.rs.  A ColumnStat is a record *)
(* [min, avg, max]; an Option<NonZeroUsize> is <<>> or <<n>>.  usize is    *)
(* UsizeBits wide: arithmetic that leaves it fails the build's overflow    *)
(* check (recorded in the fault set) and wraps where there is none.        *)

Usize == 2^UsizeBits

\* a - b in usize
usize_sub(a, b) ==
    [v |-> IF a >= b THEN a - b ELSE Usize - ((b - a) % Usize),
     fault |-> IF a >= b THEN {} ELSE {"usize: subtraction underflows"}]

\* a * b in usize
usize_mul(a, b) ==
    [v |-> (a * b) % Usize,
     fault |-> IF a * b < Usize THEN {} ELSE {"usize: multiplication overflows"}]

\* a + b in usize
usize_add(a, b) ==
    [v |-> (a + b) % Usize,
     fault |-> IF a + b < Usize THEN {} ELSE {"usize: addition overflows"}]

RECURSIVE Sum(_)
Sum(ns) == IF ns = <<>> THEN 0 ELSE Head(ns) + Sum(Tail(ns))

Max(a, b) == IF a >= b THEN a ELSE b

\* a quotient taken one above the floor whatever the remainder
div_above(a, b) == (a \div b) + 1

\* division rounding to the nearest
div_round(a, b) == (a + b \div 2) \div b

\* division rounding down
div_floor(a, b) == a \div b

\* usize::div_ceil
div_ceil(a, b) == (a + b - 1) \div b

\* three characters for every column
col_sep_width_each(column_stats) ==
    LET m == usize_mul(Len(column_stats), 3)
    IN  [v |-> m.v, fault |-> m.fault]

\* (column_stats.len() - 1) * 3
col_sep_width(column_stats) ==
    LET d == usize_sub(Len(column_stats), 1)
        m == usize_mul(d.v, 3)
    IN  [v |-> m.v, fault |-> d.fault \cup m.fault]

Maxes(column_stats) == [i \in 1..Len(column_stats) |-> column_stats[i].max]
Mins(column_stats) == [i \in 1..Len(column_stats) |-> column_stats[i].min]

\* compute_widths: the widths and the checks that failed on the way
compute_widths(column_stats0, max_width) ==
    IF max_width = <<>> THEN [widths |-> Maxes(column_stats0), fault |-> {}]
    ELSE
    LET M == max_width[1]
        n == Len(column_stats0)
        sep == col_sep_width(column_stats0)
        max_total == usize_add(Sum(Maxes(column_stats0)), sep.v)
        min_total == usize_add(Sum(Mins(column_stats0)), sep.v)
        column_stats == [i \in 1..n |->
                            [column_stats0[i] EXCEPT
                                 !.avg = Max(column_stats0[i].avg, column_stats0[i].min)]]
        avgs == [i \in 1..n |-> column_stats[i].avg]
        avg_total == usize_add(Sum(avgs), sep.v)
    IN  IF max_total.v <= M
        THEN [widths |-> Maxes(column_stats0), fault |-> sep.fault \cup max_total.fault]
        ELSE IF min_total.v >= M
        THEN [widths |-> Mins(column_stats0),
              fault |-> sep.fault \cup max_total.fault \cup min_total.fault]
        ELSE IF avg_total.v < M
        THEN LET extra == M - avg_total.v
                 room == [i \in 1..n |-> usize_sub(column_stats[i].max, column_stats[i].avg)]
                 delta == Sum([i \in 1..n |-> room[i].v])
             IN  [widths |-> [i \in 1..n |->
                                 IF delta = 0 THEN column_stats[i].avg
                                 ELSE column_stats[i].avg
                                          + (extra * room[i].v) \div delta],
                  fault |-> sep.fault \cup max_total.fault \cup min_total.fault
                            \cup avg_total.fault
                            \cup UNION {room[i].fault : i \in 1..n}
                            \cup (IF delta = 0 THEN {"compute_widths: division by zero"}
                                  ELSE {})]
        ELSE IF avg_total.v = M
        THEN [widths |-> avgs,
              fault |-> sep.fault \cup max_total.fault \cup min_total.fault
                        \cup avg_total.fault]
        ELSE LET extra == avg_total.v - M
                 room == [i \in 1..n |-> usize_sub(column_stats[i].avg, column_stats[i].min)]
                 delta == Sum([i \in 1..n |-> room[i].v])
                 cut == [i \in 1..n |->
                            IF delta = 0 THEN 0 ELSE div_ceil(extra * room[i].v, delta)]
                 left == [i \in 1..n |-> usize_sub(column_stats[i].avg, cut[i])]
             IN  [widths |-> [i \in 1..n |-> left[i].v],
                  fault |-> sep.fault \cup max_total.fault \cup min_total.fault
                            \cup avg_total.fault
                            \cup UNION {room[i].fault \cup left[i].fault : i \in 1..n}
                            \cup (IF delta = 0 THEN {"compute_widths: division by zero"}
                                  ELSE {})]

\* the column statistics of the repository's own tests, with their width
TestStats ==
    {<<20, <<[min |-> 4, avg |-> 16, max |-> 16], [min |-> 5, avg |-> 5, max |-> 5]>>>>,
     <<28, <<[min |-> 5, avg |-> 13, max |-> 13], [min |-> 11, avg |-> 97, max |-> 97]>>>>,
     <<40, <<[min |-> 10, avg |-> 5, max |-> 15], [min |-> 10, avg |-> 25, max |-> 50]>>>>,
     <<40, <<[min |-> 9, avg |-> 26, max |-> 35], [min |-> 3, avg |-> 5, max |-> 7]>>>>,
     <<30, <<[min |-> 9, avg |-> 26, max |-> 35], [min |-> 3, avg |-> 5, max |-> 7]>>>>}

\* the widths a cell's words and lines can have
StatValues == {0, 1, 2, 5}

ColumnStats ==
    {st \in [min : StatValues, avg : StatValues, max : StatValues] :
         st.min <= st.max /\ st.avg <= st.max}

StatLists == UNION {[1..k -> ColumnStats] : k \in 0..MaxColumns}

InitWidths ==
    /\ result = <<>>
    /\ pending = <<>>
    /\ initial_prefix = <<>>
    /\ subsequent_prefix = <<>>
    /\ gap_prefix_offset = 0
    /\ blocks = <<>>
    /\ open = <<>>
    /\ saved = <<>>
    /\ budget = 0
    /\ pc = "widths"
    /\ output = <<>>
    /\ log = <<>>
    /\ fault = {}
    /\ txt = NoText
    /\ tbl \in {[stage |-> "stats", column_stats |-> l, max_width |-> m, widths |-> <<>>] :
                    l \in StatLists, m \in {<<>>} \cup {<<w>> : w \in 1..MaxTableWidth}}
               \cup {[stage |-> "stats", column_stats |-> t[2], max_width |-> <<t[1]>>,
                      widths |-> <<>>] : t \in TestStats}

\* compute_widths(column_stats, max_width)
ComputeWidths ==
    /\ pc = "widths" /\ tbl.stage = "stats"
    /\ LET r == compute_widths(tbl.column_stats, tbl.max_width)
       IN  /\ tbl' = [tbl EXCEPT !.widths = r.widths, !.stage = "widths"]
           /\ fault' = fault \cup r.fault
    /\ UNCHANGED <<result, pending, initial_prefix, subsequent_prefix, gap_prefix_offset,
                   blocks, open, saved, budget, pc, output, log, txt>>

NextWidths == ComputeWidths

SpecWidths == InitWidths /\ [][NextWidths]_vars

---------------------------------------------------------------------------
(* parse_table, compute_column_stats and render_table of                   *)
(* src/html/table.rs.  A table element is [header, body, footer]: the rows *)
(* (child elements) of its thead, tbody and tfoot, none where the element  *)
(* is absent.  A row is the sequence of its cells and a cell is the text   *)
(* it holds.                                                               *)

\* the rows in the order body, header, footer
parse_table_body_first(table) ==
    [data |-> table.body \o table.header \o table.footer,
     headers |-> Len(table.header),
     footers |-> Len(table.footer),
     origin |-> [i \in 1..Len(table.body) |-> <<"body", i>>]
                \o [i \in 1..Len(table.header) |-> <<"header", i>>]
                \o [i \in 1..Len(table.footer) |-> <<"footer", i>>]]

\* parse_table: data, headers and footers of Table; `origin` (history) is the
\* group and the place in it each row of data was taken from
parse_table(table) ==
    [data |-> table.header \o table.body \o table.footer,
     headers |-> Len(table.header),
     footers |-> Len(table.footer),
     origin |-> [i \in 1..Len(table.header) |-> <<"header", i>>]
                \o [i \in 1..Len(table.body) |-> <<"body", i>>]
                \o [i \in 1..Len(table.footer) |-> <<"footer", i>>]]

\* Iterator::max().unwrap_or_default()
RECURSIVE MaxOf(_)
MaxOf(ns) == IF ns = <<>> THEN 0 ELSE Max(Head(ns), MaxOf(Tail(ns)))

\* WordSeparator::find_words: the words between the spaces of a line
RECURSIVE Words(_)
Words(s) ==
    LET sps == {i \in 1..Len(s) : s[i] = SP}
    IN  IF s = <<>> THEN <<>>
        ELSE IF sps = {} THEN <<s>>
        ELSE LET i == CHOOSE k \in sps : \A j \in sps : k <= j
             IN  (IF i = 1 THEN <<>> ELSE <<SubSeq(s, 1, i - 1)>>)
                     \o Words(SubSeq(s, i + 1, Len(s)))

\* F(v), with v worked out once
With(v, F(_)) == CHOOSE y \in {F(x) : x \in {v}} : TRUE

\* textwrap::fill(text, width) without indents: a word goes on the line while
\* the line stays within the width (no word of the model is wider than the
\* width it is wrapped to)
Wrap(text, width) ==
    LET RECURSIVE WrapWords(_, _)
        WrapWords(words, line) ==
            IF words = <<>> THEN <<line>>
            ELSE IF Width(line) + 1 + Width(Head(words)) <= width
            THEN WrapWords(Tail(words), line \o <<SP>> \o Head(words))
            ELSE <<line>> \o WrapWords(Tail(words), Head(words))
        line(l) == With(Words(l), LAMBDA ws : IF ws = <<>> THEN <<<<>>>>
                                               ELSE WrapWords(Tail(ws), Head(ws)))
        RECURSIVE all(_)
        all(ls) == IF ls = <<>> THEN <<>> ELSE line(Head(ls)) \o all(Tail(ls))
    IN  With(SplitLines(text), LAMBDA ls : With(all(ls), LAMBDA wrapped : JoinLines(wrapped)))

\* render_node(cell, url, max_width) for a cell that holds the text t: the
\* text is pushed into the root Block of a State of its own, the Block is
\* dropped and the flushed text is wrapped to max_width, if there is one
render_cell(t, max_width) ==
    With(push(DefaultState @@ [log |-> <<>>, fault |-> {}], root_block(DefaultState), t),
         LAMBDA r :
             With(render(drop(r.s, r.b)),
                  LAMBDA s : IF max_width = <<>> THEN s.result
                             ELSE Wrap(s.result, max_width[1])))

\* the fold of compute_column_stats over the cells of one column
\* (count, min, sum, max) and the ColumnStat made of it
ColumnStat(cells) ==
    LET max_word_width(t) ==
            With(Words(t), LAMBDA ws : MaxOf([w \in 1..Len(ws) |-> Width(ws[w])]))
        max_line_width(t) ==
            With(SplitLines(t), LAMBDA ls : MaxOf([l \in 1..Len(ls) |-> Width(ls[l])]))
    IN  With([k \in 1..Len(cells) |-> render_cell(cells[k], <<>>)],
             LAMBDA rendered :
                 With([k \in 1..Len(cells) |-> max_line_width(rendered[k])],
                      LAMBDA line_widths :
                          [min |-> MaxOf([k \in 1..Len(cells) |->
                                             max_word_width(rendered[k])]),
                           avg |-> IF Len(cells) = 0 THEN 0
                                   ELSE Sum(line_widths) \div Len(cells),
                           max |-> MaxOf(line_widths)]))

\* compute_column_stats: the ColumnStat of every column, and the checks that
\* failed on the way
compute_column_stats(data) ==
    LET column_count == MaxOf([r \in 1..Len(data) |-> Len(data[r])])
        \* data.iter().filter_map(|r| r.get(i))
        column(i) ==
            With(SelectSeq(data, LAMBDA row : Len(row) >= i),
                 LAMBDA rows : [k \in 1..Len(rows) |-> rows[k][i]])
    IN  [stats |-> [i \in 1..column_count |-> ColumnStat(column(i))],
         fault |-> IF \E i \in 1..column_count : column(i) = <<>>
                   THEN {"compute_column_stats: division by zero"} ELSE {}]

\* the separator line: every column filled with c, "c|c" between two columns
RECURSIVE SeparatorLine(_, _)
SeparatorLine(c, widths) ==
    IF widths = <<>> THEN <<>>
    ELSE IF Len(widths) = 1 THEN Repeat(c, widths[1])
    ELSE Repeat(c, widths[1]) \o <<c, "|", c>> \o SeparatorLine(c, Tail(widths))

\* write!(result, "{sep}{content:width$}") for every cell of one physical line
RECURSIVE CellsLine(_, _, _, _)
CellsLine(cell_lines, widths, line, separator) ==
    IF cell_lines = <<>> \/ widths = <<>> THEN <<>>
    ELSE LET cell == Head(cell_lines)
             content == IF line <= Len(cell) THEN cell[line] ELSE <<>>
             width == Head(widths)
             fill == IF width >= Width(content) THEN width - Width(content) ELSE 0
         IN  content \o Repeat(SP, fill)
                 \o (IF Len(cell_lines) = 1 \/ Len(widths) = 1 THEN <<>>
                     ELSE separator
                              \o CellsLine(Tail(cell_lines), Tail(widths), line, separator))

\* the physical lines of one row, from `line` on, appended to result:
\* result.truncate(result.trim_end().len()) follows every one
RECURSIVE RowLines(_, _, _, _, _)
RowLines(result0, cell_lines, widths, line, line_count) ==
    IF line > line_count THEN result0
    ELSE With(result0 \o (IF line # 1 THEN <<NL>> ELSE <<>>)
                  \o CellsLine(cell_lines, widths, line,
                               IF line = 1 THEN <<SP, "|", SP>> ELSE <<SP, SP, SP>>),
              LAMBDA written :
                  With(trim_end(written),
                       LAMBDA trimmed :
                           RowLines(trimmed, cell_lines, widths, line + 1, line_count)))

\* one turn of the loop over table.data, for the row i (counted from 0), with
\* footer_start where the code compares i to it: what result and the history
\* `emitted` are after it.  `emitted` lists what the loop wrote, in order:
\* [kind |-> "row", origin, lines], [kind |-> "-", line], [kind |-> "=", line]
RenderRow(t, widths, i, footer_start, acc) ==
    LET row == t.data[i + 1]
        dash == SeparatorLine("-", widths)
        equals == SeparatorLine("=", widths)
        before == (IF i # 0 THEN <<NL>> ELSE <<>>)
                      \o (IF i = footer_start THEN dash \o <<NL>> ELSE <<>>)
        n == Min(Len(row), Len(widths))
        \* render_node(*element, url, NonZeroUsize::new(*width)), split at '\n'
        cell(j) == With(render_cell(row[j], IF widths[j] = 0 THEN <<>> ELSE <<widths[j]>>),
                        LAMBDA rendered : SplitLines(rendered))
    IN  With([j \in 1..n |-> cell(j)],
             LAMBDA cell_lines :
                 With(MaxOf([j \in 1..n |-> Len(cell_lines[j])]),
                      LAMBDA line_count :
                          [result |->
                               RowLines(acc.result \o before, cell_lines, widths, 1,
                                        line_count)
                                   \o (IF i + 1 = t.headers THEN <<NL>> \o equals
                                       ELSE <<>>),
                           emitted |->
                               acc.emitted
                                   \o (IF i = footer_start
                                       THEN <<[kind |-> "-", line |-> dash]>> ELSE <<>>)
                                   \o <<[kind |-> "row", origin |-> t.origin[i + 1],
                                         lines |-> line_count]>>
                                   \o (IF i + 1 = t.headers
                                       THEN <<[kind |-> "=", line |-> equals]>>
                                       ELSE <<>>)]))

RECURSIVE RenderRows(_, _, _, _, _)
RenderRows(t, widths, i, footer_start, acc) ==
    IF i >= Len(t.data) THEN acc
    ELSE With(RenderRow(t, widths, i, footer_start, acc),
              LAMBDA row_done : RenderRows(t, widths, i + 1, footer_start, row_done))

\* String::with_capacity((widths.iter().sum::<usize>() + 3 * (widths.len() - 1) + 1)
\*                       * table.data.len()): the checks that fail; a capacity
\* above isize::MAX is refused ("capacity overflow")
with_capacity(widths, rows) ==
    LET d == usize_sub(Len(widths), 1)
        m == usize_mul(3, d.v)
        a == usize_add(Sum(widths) % Usize, m.v)
        b == usize_add(a.v, 1)
        c == usize_mul(b.v, rows)
    IN  d.fault \cup m.fault \cup a.fault \cup b.fault \cup c.fault
            \cup (IF c.v >= Usize \div 2 THEN {"String::with_capacity: capacity overflow"}
                  ELSE {})

\* what render_table does with a Table that has rows
RenderData(t, max_width) ==
    With(compute_column_stats(t.data),
         LAMBDA cs :
             With(compute_widths(cs.stats, max_width),
                  LAMBDA w :
                      With(RenderRows(t, w.widths, 0, Len(t.data) - t.footers,
                                      [result |-> <<>>, emitted |-> <<>>]),
                           LAMBDA out :
                               [table |-> t, widths |-> w.widths, result |-> out.result,
                                emitted |-> out.emitted,
                                fault |-> cs.fault \cup w.fault
                                          \cup with_capacity(w.widths, Len(t.data))])))

\* render_table(table_element, url, max_width): the Table, the widths, the
\* String returned, the history of the loop and the checks that failed
render_table(table_element, max_width) ==
    With(parse_table(table_element),
         LAMBDA t : IF t.data = <<>>
                    THEN [table |-> t, widths |-> <<>>, result |-> <<>>,
                          emitted |-> <<>>, fault |-> {}]
                    ELSE RenderData(t, max_width))

\* the texts of the cells
CellTexts == {<<>>, <<A, SP, A>>}

\* the tables of at most MaxRows rows, a row being at most MaxColumns cells
\* that hold the same text: h header rows, then b body rows, the other rows
\* in the footer
Tables ==
    LET Rows == {<<>>} \cup {[j \in 1..n |-> c] : n \in 1..MaxColumns, c \in CellTexts}
        RowLists == UNION {[1..k -> Rows] : k \in 0..MaxRows}
        Splits(n) == {p \in (0..n) \X (0..n) : p[1] + p[2] <= n}
    IN  UNION {{[header |-> SubSeq(l, 1, p[1]),
                 body |-> SubSeq(l, p[1] + 1, p[1] + p[2]),
                 footer |-> SubSeq(l, p[1] + p[2] + 1, Len(l))] : p \in Splits(Len(l))} :
                   l \in RowLists}

\* a row of cells with these texts
Cells(texts) == [j \in 1..Len(texts) |-> <<texts[j]>>]

\* the tables of the repository's tests simple, one_column, empty_column,
\* ragged, header, footer and no_body, and a table with two header rows, a
\* body row and two footer rows
TestTables ==
    {[header |-> <<>>, body |-> <<Cells(<<"1", "2", "3">>), Cells(<<"4", "5", "6">>)>>,
      footer |-> <<>>],
     [header |-> <<>>, body |-> <<Cells(<<"1">>), Cells(<<"4">>)>>, footer |-> <<>>],
     [header |-> <<>>, body |-> <<<<<<A>>, <<>>, <<A>>>>>>, footer |-> <<>>],
     [header |-> <<>>, body |-> <<Cells(<<"1", "2">>), Cells(<<"4", "5", "6">>)>>,
      footer |-> <<>>],
     [header |-> <<Cells(<<"1", "2", "3">>)>>, body |-> <<Cells(<<"4", "5", "6">>)>>,
      footer |-> <<>>],
     [header |-> <<>>, body |-> <<Cells(<<"1", "2", "3">>)>>,
      footer |-> <<Cells(<<"4", "5", "6">>)>>],
     [header |-> <<Cells(<<"1", "2", "3">>)>>, body |-> <<>>,
      footer |-> <<Cells(<<"4", "5", "6">>)>>],
     [header |-> <<Cells(<<"1">>), Cells(<<"2">>)>>, body |-> <<Cells(<<"3">>)>>,
      footer |-> <<Cells(<<"4">>), Cells(<<"5">>)>>]}

\* no maximum width, and one that makes every cell wrap
TableWidths == {<<>>, <<2>>}

InitTable ==
    /\ result = <<>>
    /\ pending = <<>>
    /\ initial_prefix = <<>>
    /\ subsequent_prefix = <<>>
    /\ gap_prefix_offset = 0
    /\ blocks = <<>>
    /\ open = <<>>
    /\ saved = <<>>
    /\ budget = 0
    /\ pc = "table"
    /\ output = <<>>
    /\ log = <<>>
    /\ fault = {}
    /\ txt = NoText
    /\ tbl \in {[stage |-> "element", element |-> tb, max_width |-> m] :
                    tb \in Tables \cup TestTables, m \in TableWidths}

\* render_table(table_element, url, max_width)
RenderTable ==
    /\ pc = "table" /\ tbl.stage = "element"
    /\ \E r \in {render_table(tbl.element, tbl.max_width)} :
           /\ tbl' = [stage |-> "rendered", element |-> tbl.element,
                      max_width |-> tbl.max_width, table |-> r.table,
                      widths |-> r.widths, result |-> r.result, emitted |-> r.emitted]
           /\ fault' = fault \cup r.fault
    /\ UNCHANGED <<result, pending, initial_prefix, subsequent_prefix, gap_prefix_offset,
                   blocks, open, saved, budget, pc, output, log, txt>>

NextTable == RenderTable

SpecTable == InitTable /\ [][NextTable]_vars

\* html.rs, "table": the element goes to render_table and the String it
\* returns is pushed raw into a new Block, which goes out of scope at once;
\* no child of the element is visited
VisitTable(element, max_width) ==
    /\ CanVisit /\ InFlow
    /\ \E n \in {new_block(Cur, Top)} :
       \E g \in {render_table(element, max_width)} :
       \E r \in {push_raw(n.s, n.nb, g.result)} :
       \E d \in {drop(r.s, r.b)} :
           /\ Set([d EXCEPT
                       !.log = @ \o <<[op |-> "table", element |-> element,
                                       max_width |-> max_width, grid |-> g.result,
                                       before |-> n.s.result,
                                       subsequent |-> n.s.subsequent_prefix,
                                       pushed |-> r.s.pending, after |-> d.result]>>,
                       !.fault = @ \cup g.fault])
           /\ blocks' = Put([n.b EXCEPT !.gh.childFlushed = r.s.pending # <<>>])
    /\ UNCHANGED <<open, saved>>
    /\ Visited

\* tables in the flow of a document: a cell to escape beside a plain one, a
\* header row above a body row, and a cell of two words
NodeTables ==
    {[header |-> <<>>, body |-> <<Cells(<<STAR, A>>)>>, footer |-> <<>>],
     [header |-> <<Cells(<<"1", "2">>)>>, body |-> <<Cells(<<"4", "5">>)>>,
      footer |-> <<>>],
     [header |-> <<>>, body |-> <<<<<<A, SP, A>>>>>>, footer |-> <<>>]}

NextNodeTable ==
    \/ \E t \in BlockTexts : VisitText(t)
    \/ EnterDiv \/ ExitDiv
    \/ EnterBlockquote \/ ExitBlockquote
    \/ \E element \in NodeTables, max_width \in TableWidths :
           VisitTable(element, max_width)
    \/ Finish

\* render_node on the trees of text, div, blockquote and table nodes: at most
\* MaxNodes nodes
SpecNodeTable == Init /\ [][NextNodeTable]_vars

---------------------------------------------------------------------------
(* render_node with and without a maximum width, on a node that holds one  *)
(* text: words of one or two characters with a space or a line break       *)
(* between two of them.                                                    *)

WrapWordSet == {<<A>>, <<"b", "b">>}

\* the words with sep between two of them
RECURSIVE JoinWords(_, _)
JoinWords(words, sep) ==
    IF words = <<>> THEN <<>>
    ELSE IF Len(words) = 1 THEN words[1]
    ELSE words[1] \o <<sep>> \o JoinWords(Tail(words), sep)

\* no maximum width, or one no narrower than the widest word
WrapWidths == {<<>>} \cup {<<w>> : w \in 2..MaxWrapWidth}

InitWrap ==
    /\ result = <<>>
    /\ pending = <<>>
    /\ initial_prefix = <<>>
    /\ subsequent_prefix = <<>>
    /\ gap_prefix_offset = 0
    /\ blocks = <<>>
    /\ open = <<>>
    /\ saved = <<>>
    /\ budget = 0
    /\ pc = "wrap"
    /\ output = <<>>
    /\ log = <<>>
    /\ fault = {}
    /\ txt = NoText
    /\ tbl \in {[stage |-> "text", words |-> ws, text |-> JoinWords(ws, sep),
                 max_width |-> mw] :
                    ws \in UNION {[1..k -> WrapWordSet] : k \in 0..MaxWords},
                    sep \in {SP, NL}, mw \in WrapWidths}

\* render_node(node, url, max_width)
RenderNode ==
    /\ pc = "wrap" /\ tbl.stage = "text"
    /\ \E r \in {render_cell(tbl.text, tbl.max_width)} :
           tbl' = [stage |-> "wrapped", words |-> tbl.words, text |-> tbl.text,
                   max_width |-> tbl.max_width, result |-> r]
    /\ UNCHANGED <<result, pending, initial_prefix, subsequent_prefix, gap_prefix_offset,
                   blocks, open, saved, budget, pc, output, log, fault, txt>>

NextWrap == RenderNode

SpecWrap == InitWrap /\ [][NextWrap]_vars

---------------------------------------------------------------------------
(* rewrite_url of src/lib.rs.  A Url is [host, path, query]: the host is   *)
(* <<>> or <<name>>; the path is the sequence of its pieces, each a "/", a *)
(* ".", or a run of other characters ("x", "raw", "plain", "txt"); the     *)
(* query is <<>> or <<pairs>>, a pair being [k, v, text]: the key, the     *)
(* decoded value and the value as it is written in the URL.                *)

\* rewrite_url: the Url it leaves and the bool it returns
\* Url::set_path and Url::parse keep no "." and no ".." segment: the first is
\* dropped, the second takes the segment before it along, and either one at the
\* end leaves an empty last segment
NormalPath(p) ==
    LET Close(cur, out, last) ==
            IF cur = <<".", ".">>
            THEN LET o == IF out = <<>> THEN out ELSE SubSeq(out, 1, Len(out) - 1)
                 IN  IF last THEN Append(o, <<>>) ELSE o
            ELSE IF cur = <<".">> THEN (IF last THEN Append(out, <<>>) ELSE out)
            ELSE Append(out, cur)
        RECURSIVE Go(_, _, _)
        Go(i, cur, out) ==
            IF i > Len(p) THEN Close(cur, out, TRUE)
            ELSE IF p[i] = "/" THEN Go(i + 1, <<>>, Close(cur, out, FALSE))
            ELSE Go(i + 1, Append(cur, p[i]), out)
        RECURSIVE Join(_, _)
        Join(segments, i) ==
            IF i > Len(segments) THEN <<>> ELSE <<"/">> \o segments[i] \o Join(segments, i + 1)
    IN  With(Go(2, <<>>, <<>>), LAMBDA segments : Join(segments, 1))

rewrite_url(url) ==
    LET \* form_urlencoded::byte_serialize: a space is written "+"
        Serialize(v) == IF v = "a b" THEN "a+b" ELSE v

        \* PathSegmentsMut::pop_if_empty: an empty last segment goes, with its "/"
        pop_if_empty(segs) ==
            IF Len(segs) > 1 /\ Last(segs) = "/" THEN SubSeq(segs, 1, Len(segs) - 1) ELSE segs

        \* url.path_segments().and_then(Iterator::last): what follows the last "/"
        LastSegment(segs) ==
            LET slashes == {i \in 1..Len(segs) : segs[i] = "/"}
                i == CHOOSE k \in slashes : \A j \in slashes : j <= k
            IN  SubSeq(segs, i + 1, Len(segs))

        \* str::rsplit_once('.'): what stands before the last "."
        BeforeLastDot(segs) ==
            LET dots == {i \in 1..Len(segs) : segs[i] = "."}
                i == CHOOSE k \in dots : \A j \in dots : j <= k
            IN  SubSeq(segs, 1, i - 1)

        \* url.query_pairs()
        query_pairs(u) == IF u.query = <<>> THEN <<>> ELSE u.query[1]
        path == url.path
        hostname == url.host[1]
        set_path(p) == [ok |-> TRUE, url |-> [url EXCEPT !.path = NormalPath(p)]]
        same == [ok |-> TRUE, url |-> url]
    IN  IF url.host = <<>> THEN [ok |-> FALSE, url |-> url]
        ELSE IF hostname = "bpa.st"
        THEN IF ~(StartsWith(path, <<"/", "raw", "/">>) \/ EndsWith(path, <<"/", "raw">>))
             THEN set_path(path \o <<"/", "raw">>) ELSE same
        ELSE IF hostname = "p.dav1d.de"
        THEN IF \E i \in 1..Len(path) : path[i] = "."
             THEN set_path(BeforeLastDot(path)) ELSE same
        ELSE IF hostname = "paste.debian.net"
        THEN IF ~StartsWith(path, <<"/", "plain">>)
             THEN set_path(<<"/", "plain", "/">> \o LastSegment(pop_if_empty(path)))
             ELSE same
        ELSE IF hostname = "dpaste.com"
        THEN IF ~EndsWith(path, <<".", "txt">>)
             THEN set_path(path \o <<".", "txt">>) ELSE same
        ELSE IF hostname = "dpaste.org"
        THEN IF ~EndsWith(path, <<"/", "raw">>)
             THEN set_path(path \o <<"/", "raw">>) ELSE same
        ELSE IF hostname = "marc.info"
        THEN LET kept == SelectSeq(query_pairs(url), LAMBDA p : p.k # "q")
                 \* query_pairs_mut().clear().extend_pairs(pairs)
                 pairs == IF \E i \in 1..Len(query_pairs(url)) : query_pairs(url)[i].k = "q"
                          THEN [i \in 1..Len(kept) |->
                                   [k |-> kept[i].k, v |-> kept[i].v,
                                    text |-> Serialize(kept[i].v)]]
                          ELSE query_pairs(url)
             IN  [ok |-> TRUE,
                  url |-> [url EXCEPT
                              !.query = <<pairs \o <<[k |-> "q", v |-> "mbox",
                                                      text |-> Serialize("mbox")]>>>>]]
        ELSE IF hostname \in {"paste.mozilla.org", "pastebin.mozilla.org"}
        THEN IF ~EndsWith(path, <<"/", "raw">>)
             THEN set_path(path \o <<"/", "raw">>) ELSE same
        ELSE IF hostname = "pastebin.com"
        THEN IF ~StartsWith(path, <<"/", "raw">>)
             THEN set_path(<<"/", "raw">> \o path) ELSE same
        ELSE [ok |-> FALSE, url |-> url]

\* the URLs: every path without a query, and every query on the path "/"
Urls ==
    LET Hosts ==
            {<<>>, <<"bpa.st">>, <<"p.dav1d.de">>, <<"paste.debian.net">>, <<"dpaste.com">>,
             <<"dpaste.org">>, <<"marc.info">>, <<"paste.mozilla.org">>,
             <<"pastebin.mozilla.org">>, <<"pastebin.com">>, <<"example.com">>}

        \* the paths: a "/" and at most MaxPathAtoms pieces after it
        Paths ==
            {q \in {<<"/">> \o p : p \in UNION {[1..k -> {"/", ".", "x", "raw", "plain", "txt"}] :
                                                  k \in 0..MaxPathAtoms}} :
                NormalPath(q) = q}

        \* the queries: none, or at most MaxPairs pairs; the value "a b" is written
        \* "a+b" or "a%20b"
        Queries ==
            {<<>>} \cup
            {<<q>> : q \in UNION {[1..k -> {[k |-> "l", v |-> "x", text |-> "x"],
                                            [k |-> "l", v |-> "a b", text |-> "a+b"],
                                            [k |-> "l", v |-> "a b", text |-> "a%20b"],
                                            [k |-> "q", v |-> "x", text |-> "x"],
                                            [k |-> "q", v |-> "mbox", text |-> "mbox"]}] :
                                      k \in 0..MaxPairs}}
    IN  {[host |-> h, path |-> p, query |-> <<>>] : h \in Hosts, p \in Paths}
            \cup {[host |-> h, path |-> <<"/">>, query |-> q] : h \in Hosts, q \in Queries}

InitRewrite ==
    /\ result = <<>>
    /\ pending = <<>>
    /\ initial_prefix = <<>>
    /\ subsequent_prefix = <<>>
    /\ gap_prefix_offset = 0
    /\ blocks = <<>>
    /\ open = <<>>
    /\ saved = <<>>
    /\ budget = 0
    /\ pc = "rewrite"
    /\ output = <<>>
    /\ log = <<>>
    /\ fault = {}
    /\ txt = NoText
    /\ tbl \in {[stage |-> "url", url |-> u] : u \in Urls}

\* rewrite_url(&mut url), the first time
Rewrite ==
    /\ pc = "rewrite" /\ tbl.stage = "url"
    /\ \E r \in {rewrite_url(tbl.url)} :
           tbl' = [stage |-> "once", url |-> tbl.url, first |-> r]
    /\ UNCHANGED <<result, pending, initial_prefix, subsequent_prefix, gap_prefix_offset,
                   blocks, open, saved, budget, pc, output, log, fault, txt>>

\* rewrite_url(&mut url) on the Url the first call left
RewriteAgain ==
    /\ pc = "rewrite" /\ tbl.stage = "once"
    /\ \E r \in {rewrite_url(tbl.first.url)} :
           tbl' = [stage |-> "twice", url |-> tbl.url, first |-> tbl.first, second |-> r]
    /\ UNCHANGED <<result, pending, initial_prefix, subsequent_prefix, gap_prefix_offset,
                   blocks, open, saved, budget, pc, output, log, fault, txt>>

NextRewrite == Rewrite \/ RewriteAgain

SpecRewrite == InitRewrite /\ [][NextRewrite]_vars

---------------------------------------------------------------------------
(* show_content: the command line of the viewer.                           *)

\* show_content, up to the Command it builds: argv is what config.get_argv
\* returns for the content, env the PAGER variable (none when unset; a value
\* that is not Unicode makes env::var fail as well), file the temporary file's
\* path. The program is argv[0] as it stands; every later element of two
\* characters that starts with "%" is looked up in the replacements.
show_content(argv, content, env) ==
    LET pager == IF env # <<>> /\ env[1].unicode THEN env[1].s ELSE <<"l", "e", "s", "s">>
        file == content \in {"Image", "Pdf", "Text"}
        replacements ==
            (IF content \in {"Audio", "Video"} THEN {[char |-> "u", to |-> <<"u", "r", "l">>]}
             ELSE IF content = "Text" THEN {[char |-> "p", to |-> pager]}
             ELSE {})
                \cup (IF file THEN {[char |-> "f", to |-> <<"t", "m", "p">>]} ELSE {})
        flag(arg) == Len(arg) = 2 /\ arg[1] = "%"
        known(arg) == \E r \in replacements : r.char = arg[2]
        arg_of(arg) ==
            IF flag(arg) THEN (CHOOSE r \in replacements : r.char = arg[2]).to ELSE arg
    IN  IF \E i \in 2..Len(argv) : flag(argv[i]) /\ ~known(argv[i])
        THEN [ok |-> FALSE, program |-> <<>>, args |-> <<>>]
        ELSE [ok |-> TRUE, program |-> argv[1],
              args |-> [i \in 1..(Len(argv) - 1) |-> arg_of(argv[i + 1])]]

InitShow ==
    /\ result = <<>>
    /\ pending = <<>>
    /\ initial_prefix = <<>>
    /\ subsequent_prefix = <<>>
    /\ gap_prefix_offset = 0
    /\ blocks = <<>>
    /\ open = <<>>
    /\ saved = <<>>
    /\ budget = 0
    /\ pc = "show"
    /\ output = <<>>
    /\ log = <<>>
    /\ fault = {}
    /\ txt = NoText
    /\ tbl \in {[stage |-> "content", argv |-> a, content |-> c, env |-> e] :
                    a \in UNION {[1..k -> {<<"x">>, <<"%", "p">>, <<"%", "f">>, <<"%", "u">>,
                                           <<"%", "p", "p">>}] : k \in 1..MaxArgv},
                    c \in {"Audio", "Image", "Pdf", "Text", "Video"},
                    e \in {<<>>, <<[unicode |-> TRUE, s |-> <<>>]>>,
                           <<[unicode |-> TRUE, s |-> <<"m">>]>>,
                           <<[unicode |-> FALSE, s |-> <<"m">>]>>}}

\* show_content(config, content)
ShowContent ==
    /\ pc = "show" /\ tbl.stage = "content"
    /\ \E c \in {show_content(tbl.argv, tbl.content, tbl.env)} :
           tbl' = [stage |-> "shown", argv |-> tbl.argv, content |-> tbl.content,
                   env |-> tbl.env, command |-> c]
    /\ UNCHANGED <<result, pending, initial_prefix, subsequent_prefix, gap_prefix_offset,
                   blocks, open, saved, budget, pc, output, log, fault, txt>>

NextShow == ShowContent

SpecShow == InitShow /\ [][NextShow]_vars

---------------------------------------------------------------------------
(* The claims.                                                             *)

Calls(op) == {i \in 1..Len(log) : log[i].op = op}

\* C1: sibling Blocks opened with new_block outside a list item that each
\* flush non-empty text are separated by exactly one line, which carries the
\* right-trimmed prefix of the enclosing Blocks and nothing else; nothing is
\* written before the first content.
C1_OneSeparatorLineBetweenSiblings ==
    \A i \in Calls("flush") :
        LET e == log[i]
        IN  ~e.in_item =>
                /\ e.before = <<>> => e.after = e.filled
                /\ (e.before # <<>> /\ e.gh.sibFlushed /\ Len(e.before) = e.gh.res0) =>
                       e.after = e.before \o <<NL>> \o trim_end(e.gh.encl) \o <<NL>> \o e.filled

\* a second sibling inside a blockquote has flushed its text
C1_Witness ==
    \E i \in Calls("flush") :
        LET e == log[i]
        IN  /\ ~e.in_item /\ e.before # <<>> /\ e.gh.sibFlushed
            /\ Len(e.before) = e.gh.res0
            /\ e.gh.encl = <<">", SP>>
            /\ e.after = <<">", SP, A, NL, ">", NL, ">", SP, A>>

\* C2: whenever State::render is called, for the whole tree or for the
\* sub-render of a link or a header, the pending buffer is empty.
C2_PendingEmptyAtRender ==
    /\ "render: pending not empty" \notin fault
    /\ pc = "done" => pending = <<>>

\* a tree with a link whose text was rendered on its own has been rendered
C2_Witness ==
    /\ pc = "done"
    /\ output = <<"[", A>> \o <<"]", "(">> \o Joined("page") \o <<")">>

\* C3: when a Block that installed a prefix is dropped, the State's prefixes
\* end with what the Block added, and the drop leaves both prefixes as they
\* were when the Block called prefix().
C3_DropRestoresPrefixes ==
    \A i \in Calls("drop") :
        LET e == log[i]
        IN  e.prefixed =>
                /\ EndsWith(e.initial_before, e.own.initial)
                /\ EndsWith(e.subsequent_before, e.own.subsequent)
                /\ e.initial_after = e.gh.ini0
                /\ e.subsequent_after = e.gh.sub0

\* a list item nested in a prefixed Block has been dropped after output
C3_Witness ==
    \E i \in Calls("drop") :
        LET e == log[i]
        IN  /\ e.prefixed /\ e.gh.sub0 # <<>> /\ e.after # <<>>
            /\ e.own.initial # e.own.subsequent

\* the lines written while a list item's Block lived that carry its marker
MarkerLines(e) ==
    LET written == SubSeq(e.after, e.gh.res0 + 1, Len(e.after))
        ls == SplitLines(written)
        col == Len(e.gh.encl)
        mark == trim_end(e.own.initial)
        has(l) == Len(l) >= col + Len(mark) /\ SubSeq(l, col + 1, col + Len(mark)) = mark
    IN  Cardinality({k \in 1..Len(ls) : has(ls[k])})

\* C4: every li child of an ol or ul produces exactly one marker line, also
\* when the item has no content.
C4_OneMarkerLinePerItem ==
    \A i \in Calls("drop") :
        LET e == log[i]
        IN  (e.prefixed /\ e.must_emit) => MarkerLines(e) = 1

Separator(e) ==
    IF e.gh.pp.ws \/ is_whitespace(Head(e.t)) THEN <<SP>> ELSE <<>>

Pushed(e) ==
    IF e.in_code THEN SqueezeWhitespace(e.t) ELSE EscapeMarkdown(SqueezeWhitespace(e.t))

\* C5: of two consecutive content pushes on one Block, the second is
\* separated from the first by exactly one space if the first ended with
\* whitespace, the second starts with it or a whitespace-only push came
\* between, and by nothing otherwise; no space is written when the pending
\* buffer is empty or ends with a line break.
C5_OneSpaceBetweenPushes ==
    \A i \in Calls("push") :
        LET e == log[i]
        IN  /\ e.gh.pp.on => e.after = e.before \o Separator(e) \o Pushed(e)
            /\ (e.before = <<>> \/ Last(e.before) = NL) =>
                   e.after = e.before
                                 \o (IF e.raw_start # <<>> THEN e.raw_start[1] ELSE <<>>)
                                 \o Pushed(e)

\* a push that starts without whitespace, after a content push that left
\* whitespace pending (its own last character or a whitespace-only push)
C5_Witness ==
    \E i \in Calls("push") :
        LET e == log[i]
        IN  /\ e.gh.pp.on /\ e.gh.pp.ws /\ ~is_whitespace(Head(e.t))
            /\ e.after = e.before \o <<SP>> \o Pushed(e)

\* C6: push_raw_start(m), whitespace-only or empty pushes, push_raw_end(m):
\* the pending buffer is as it was before the push_raw_start, and whitespace
\* pushed inside is pending whitespace afterwards.
C6_EmptyPairCancelled ==
    \A i \in Calls("push_raw_end") :
        LET e == log[i]
        IN  e.gh.rs.on =>
                /\ e.after = e.gh.rs.pending
                /\ e.pw = (e.gh.rs.pw \/ e.gh.rs.ws)

\* a pair around whitespace alone has ended after some content
C6_Witness ==
    \E i \in Calls("push_raw_end") :
        LET e == log[i]
        IN  /\ e.gh.rs.on /\ e.gh.rs.ws /\ ~e.gh.rs.pw
            /\ e.gh.rs.pending = <<A>>
            /\ e.pw

IsEscaped(c) == c \in EscapedChars

\* what is left when the backslashes the escaper added are taken out; <<"!">>
\* marks an escaped character that had none added
RECURSIVE Unescape(_)
Unescape(s) ==
    IF s = <<>> THEN <<>>
    ELSE IF Head(s) = "\\"
         THEN IF Len(s) >= 2 /\ IsEscaped(s[2])
              THEN <<s[2]>> \o Unescape(SubSeq(s, 3, Len(s)))
              ELSE <<"!">>
         ELSE IF IsEscaped(Head(s)) THEN <<"!">>
         ELSE <<Head(s)>> \o Unescape(Tail(s))

\* C7: in text pushed outside code mode every # * \ _ and backtick stands
\* right after a backslash that was added for it, and taking the added
\* backslashes out gives the squeezed text back.
C7_EscapeAddsOnlyBackslashes ==
    txt.stage = "escaped" => Unescape(txt.escaped) = txt.squeezed

\* a squeezed text with a backslash and a star in it has been escaped
C7_Witness ==
    /\ txt.stage = "escaped"
    /\ txt.squeezed = <<"\\", SP, STAR, A>>
    /\ txt.escaped = <<"\\", "\\", SP, "\\", STAR, A>>

CodeMode(gh) == gh.codeLast = "start" \/ (gh.codeLast = "none" /\ gh.codeParent)

\* C8: text pushed after start_code is squeezed and not escaped, text pushed
\* after end_code is squeezed and escaped, and a Block made by new_block or
\* new_item starts in its parent's code mode.
C8_CodeModeDecidesEscaping ==
    /\ \A i \in Calls("push") :
           LET e == log[i]
           IN  EndsWith(e.after,
                        IF CodeMode(e.gh) THEN SqueezeWhitespace(e.t)
                        ELSE EscapeMarkdown(SqueezeWhitespace(e.t)))
    /\ \A k \in 2..Len(blocks) :
           (~blocks[k].gh.root /\ blocks[k].gh.codeLast = "none") =>
               blocks[k].in_code = blocks[k - 1].in_code

\* a star was pushed into a Block that was opened inside a code element
C8_Witness ==
    \E i \in Calls("push") :
        LET e == log[i]
        IN  /\ e.gh.codeLast = "none" /\ e.gh.codeParent /\ ~e.gh.root
            /\ e.t = <<STAR>>
            /\ e.after = <<STAR>>

NonWhitespace(s) == SelectSeq(s, LAMBDA c : ~is_whitespace(c))

\* C9: the squeezed text holds no whitespace but the single space, neither
\* starts nor ends with a space, holds no two spaces in a row, keeps the
\* other characters as they were and in order, and is empty when the input
\* is whitespace alone.
C9_SqueezeShape ==
    txt.stage # "input" /\ pc = "text" =>
        LET o == txt.squeezed
        IN  /\ \A k \in 1..Len(o) : is_whitespace(o[k]) => o[k] = SP
            /\ o # <<>> => (Head(o) # SP /\ Last(o) # SP)
            /\ \A k \in 1..Len(o) - 1 : ~(o[k] = SP /\ o[k + 1] = SP)
            /\ NonWhitespace(o) = NonWhitespace(txt.input)
            /\ AllWhitespace(txt.input) => o = <<>>

\* runs of whitespace at the start and at the end have been squeezed away
C9_Witness ==
    /\ txt.stage = "squeezed"
    /\ txt.input = <<ZWSP, A, NL, SP>>
    /\ txt.squeezed = <<A>>

\* C10: squeezing a squeezed text gives the same text.
C10_SqueezeIdempotent ==
    txt.stage = "again" => txt.again = txt.squeezed

\* a text that squeezing changed has been squeezed twice
C10_Witness ==
    /\ txt.stage = "again"
    /\ txt.input # txt.squeezed
    /\ txt.squeezed # <<>>
    /\ Len(txt.input) = MaxLen

\* the pieces of a raw push with the active prefix before each piece that
\* starts a line: `first` until a prefix has been written, `rest` after it
RECURSIVE PrefixedLines(_, _, _, _)
PrefixedLines(pieces, at_start, first, rest) ==
    IF pieces = <<>> THEN <<>>
    ELSE LET piece == Head(pieces)
             pfx == IF ~at_start THEN <<>>
                    ELSE IF piece = <<NL>> THEN trim_end(first) ELSE first
         IN  pfx \o piece
                 \o PrefixedLines(Tail(pieces), Last(piece) = NL,
                                  IF at_start THEN rest ELSE first, rest)

\* C11: RawBlock::push writes the active prefix once at the start of every
\* line it emits (the initial prefix if it is still unused, else the
\* subsequent prefix; right-trimmed on an empty line) and the text as it is,
\* so every line of a pre region carries the prefix of the enclosing Blocks.
C11_RawLinesCarryPrefix ==
    /\ \A i \in Calls("raw_push") :
           LET e == log[i]
           IN  e.after = e.before
                             \o PrefixedLines(SplitInclusive(e.t), e.at_sol,
                                              IF e.gap = 0 THEN e.subsequent ELSE e.initial,
                                              e.subsequent)
    /\ \A i \in Calls("pre") :
           LET e == log[i]
               ls == SplitLines(SubSeq(e.after, e.res0 + 1, Len(e.after)))
           IN  /\ StartsWith(ls[1], e.first \o Fence)
               /\ \A k \in 2..Len(ls) :
                      \/ StartsWith(ls[k], e.encl) /\ Len(ls[k]) > Len(e.encl)
                      \/ ls[k] = trim_end(e.encl)

\* a pre region with an empty line inside a blockquote has been written
C11_Witness ==
    \E i \in Calls("pre") :
        /\ log[i].encl = <<">", SP>>
        /\ log[i].after = <<">", SP>> \o Fence \o <<NL, ">", SP, A, NL, ">", NL, ">", SP, A, NL,
                            ">", SP>> \o Fence

\* C12: calling RawBlock::ensure_newline twice leaves result and at_sol as
\* calling it once does, whatever was pushed before, and a call appends
\* nothing when the last line is already terminated.
C12_EnsureNewlineIdempotent ==
    /\ TopKind = "pre" =>
           LET once == ensure_newline(Cur, [at_sol |-> TopFrame.at_sol])
               twice == ensure_newline(once.s, once.rb)
           IN  /\ twice.s.result = once.s.result
               /\ twice.rb = once.rb
               /\ once.rb.at_sol
    /\ \A i \in Calls("ensure_newline") :
           log[i].at_sol => log[i].after = log[i].before

\* ensure_newline has ended an open line in a blockquote
C12_Witness ==
    \E i \in Calls("ensure_newline") :
        /\ ~log[i].at_sol
        /\ log[i].subsequent = <<">", SP>>
        /\ log[i].after = log[i].before \o <<NL>>

\* the number of decimal digits of n
DigitCount(n) == CHOOSE w \in 1..4 : 10^(w - 1) <= n /\ n < 10^w

\* the number a string of decimal digits stands for; 0 when it is none
RECURSIVE NumberOf(_)
NumberOf(ds) ==
    IF \E j \in 1..Len(ds) : ds[j] \notin {DigitChars[k] : k \in 1..10} THEN 0
    ELSE IF ds = <<>> THEN 0
    ELSE LET d == Last(ds)
         IN  10 * NumberOf(SubSeq(ds, 1, Len(ds) - 1))
                 + (CHOOSE k \in 0..9 : DigitChars[k + 1] = d)

LeadingSpaces(t) ==
    CHOOSE k \in 0..Len(t) : /\ \A j \in 1..k : t[j] = SP
                             /\ k < Len(t) => t[k + 1] # SP

\* C13: in an ol with n >= 1 li children, item k has the initial prefix k,
\* right-aligned in digits(n) characters, then ". ", and the subsequent
\* prefix of digits(n) + 2 spaces; the two are equally wide and the
\* assertion of prefix() holds.
C13_OlPrefixes ==
    /\ "prefix: widths differ" \notin fault
    /\ (Len(open) >= 2 /\ TopKind = "li" /\ open[Len(open) - 1].kind = "ol") =>
           LET own == Top.prefixes[1]
               k == open[Len(open) - 1].item_count
               n == open[Len(open) - 1].child_count
               w == DigitCount(n)
               pad == LeadingSpaces(own.initial)
           IN  /\ Len(own.initial) = w + 2
               /\ SubSeq(own.initial, w + 1, w + 2) = <<".", SP>>
               /\ NumberOf(SubSeq(own.initial, pad + 1, w)) = k
               /\ own.subsequent = [j \in 1..w + 2 |-> SP]

\* the tenth item of a list of ten, after the one-digit items
C13_Witness ==
    /\ Len(open) >= 2 /\ TopKind = "li" /\ open[Len(open) - 1].kind = "ol"
    /\ open[Len(open) - 1].child_count = 10
    /\ open[Len(open) - 1].item_count = 10
    /\ Top.prefixes[1].initial = <<"1", "0", ".", SP>>
    /\ StartsWith(result, <<SP, "1", ".", NL, SP, "2", ".", NL>>)

\* the link an a element stands for in the output
LinkText(e) ==
    <<"[">> \o e.text \o <<"]", "(">>
        \o (IF e.href = "bad" THEN Literal(e.href) ELSE Joined(e.href)) \o <<")">>

\* one visible character: at most one, or two when the first is a backslash
OneVisibleChar(text) ==
    Len(text) <= (IF text # <<>> /\ Head(text) = "\\" THEN 2 ELSE 1)

\* C14: an a element with an href writes nothing exactly when its URL
\* resolves to an anchor of the same page and its rendered text is at most
\* one character, or two when it starts with a backslash; otherwise it writes
\* [text](url), with the href as written when it does not resolve.
C14_UselessAnchorsSuppressed ==
    \A i \in Calls("a") :
        LET e == log[i]
        IN  IF e.href = "anchor" /\ OneVisibleChar(e.text)
            THEN e.after = e.before
            ELSE /\ EndsWith(e.after, LinkText(e))
                 /\ Len(e.after) >= Len(e.before) + Len(LinkText(e))

Columns == Len(tbl.column_stats)

\* C16: for column statistics with min <= max and avg <= max and a maximum
\* width M above the sum of the min widths plus 3*(columns-1), the widths of
\* compute_widths, with their separators, are at most M wide.
C16_WidthsFitMaximum ==
    (tbl.stage = "widths" /\ tbl.max_width # <<>>
     /\ Sum(Mins(tbl.column_stats)) + 3 * (Columns - 1) < tbl.max_width[1]) =>
        /\ Len(tbl.widths) = Columns
        /\ Sum(tbl.widths) + 3 * (Columns - 1) <= tbl.max_width[1]

\* two columns were narrowed, each by a rounded-up share of the excess
C16_Witness ==
    /\ tbl.stage = "widths" /\ tbl.max_width = <<10>>
    /\ tbl.column_stats = <<[min |-> 1, avg |-> 5, max |-> 5], [min |-> 2, avg |-> 5, max |-> 5]>>
    /\ tbl.widths = <<3, 3>>

\* C17: compute_widths returns every column's max width when no maximum
\* width is given or the max widths with their separators fit it.
C17_MaxWidthsWhenTheyFit ==
    (tbl.stage = "widths"
     /\ (tbl.max_width = <<>>
         \/ Sum(Maxes(tbl.column_stats)) + 3 * (Columns - 1) <= tbl.max_width[1])) =>
        tbl.widths = Maxes(tbl.column_stats)

\* two columns whose max widths fill the given width to the last character
C17_Witness ==
    /\ tbl.stage = "widths" /\ tbl.max_width = <<10>>
    /\ Maxes(tbl.column_stats) = <<5, 2>>
    /\ Mins(tbl.column_stats) = <<1, 0>>
    /\ tbl.widths = <<5, 2>>

\* the least q with q * b >= a
CeilQuotient(a, b) == CHOOSE q \in 0..a : q * b >= a /\ (q = 0 \/ (q - 1) * b < a)

ClampedAvg(i) == Max(tbl.column_stats[i].avg, tbl.column_stats[i].min)

AvgTotal == Sum([i \in 1..Columns |-> ClampedAvg(i)]) + 3 * (Columns - 1)

\* avg_i - ceil(extra * (avg_i - min_i) / sum_j (avg_j - min_j)) for every
\* column, with extra the excess of the averages over the maximum width
Shrunk ==
    LET slack == Sum([i \in 1..Columns |-> ClampedAvg(i) - tbl.column_stats[i].min])
        extra == AvgTotal - tbl.max_width[1]
    IN  [i \in 1..Columns |->
            ClampedAvg(i)
                - CeilQuotient(extra * (ClampedAvg(i) - tbl.column_stats[i].min), slack)]

\* C18 as it stands: when the averages (each at least its min) with their
\* separators exceed the maximum width M, column i gets
\* avg_i - ceil(extra * (avg_i - min_i) / sum_j (avg_j - min_j)).
C18_ShrinkWheneverAveragesExceed ==
    (tbl.stage = "widths" /\ tbl.max_width # <<>> /\ Columns >= 1
     /\ AvgTotal > tbl.max_width[1]) =>
        tbl.widths = Shrunk

\* C18, amended: the same when, besides, the min widths with their
\* separators are below M; (4,16,16), (5,5,5) and M = 20 give 12 and 5.
C18_ProportionalShrink ==
    /\ (tbl.stage = "widths" /\ tbl.max_width # <<>> /\ Columns >= 1
        /\ AvgTotal > tbl.max_width[1]
        /\ Sum(Mins(tbl.column_stats)) + 3 * (Columns - 1) < tbl.max_width[1]) =>
           tbl.widths = Shrunk
    /\ (/\ tbl.stage = "widths" /\ tbl.max_width = <<20>>
        /\ tbl.column_stats = <<[min |-> 4, avg |-> 16, max |-> 16],
                                [min |-> 5, avg |-> 5, max |-> 5]>>) =>
           tbl.widths = <<12, 5>>

\* the widths of the repository's test with (4,16,16), (5,5,5) and 20
C18_Witness ==
    /\ tbl.stage = "widths" /\ tbl.max_width = <<20>>
    /\ tbl.column_stats = <<[min |-> 4, avg |-> 16, max |-> 16],
                            [min |-> 5, avg |-> 5, max |-> 5]>>
    /\ tbl.widths = <<12, 5>>

\* the lines of the grid as they stand in the output: each after the prefix
\* of the blocks around the table
GridLines(e) ==
    LET ls == SplitLines(e.grid)
    IN  JoinLines([i \in 1..Len(ls) |-> e.subsequent \o ls[i]])

---------------------------------------------------------------------------
(* C19, C20: render_table.                                                 *)

Rendered == tbl.stage = "rendered"

\* the places in the history of the loop where it wrote this kind of thing
Emitted(kind) == {i \in 1..Len(tbl.emitted) : tbl.emitted[i].kind = kind}

\* where the rows the loop wrote came from, in the order it wrote them
EmittedRows ==
    LET rows == SelectSeq(tbl.emitted, LAMBDA e : e.kind = "row")
    IN  [i \in 1..Len(rows) |-> rows[i].origin]

\* the rows of the element: those of thead, then tbody, then tfoot
RowsInOrder ==
    [i \in 1..Len(tbl.element.header) |-> <<"header", i>>]
        \o [i \in 1..Len(tbl.element.body) |-> <<"body", i>>]
        \o [i \in 1..Len(tbl.element.footer) |-> <<"footer", i>>]

\* the lines of the returned String that are filled with c
FilledLines(c) ==
    LET ls == SplitLines(tbl.result)
    IN  {i \in 1..Len(ls) : ls[i] # <<>> /\ \A j \in 1..Len(ls[i]) : ls[i][j] \in {c, "|"}}

IsFilled(line, c) == \A j \in 1..Len(line) : line[j] \in {c, "|"}

\* C19: render_table writes the header rows, then the body rows, then the
\* footer rows, each group in its own order.  It writes one line filled with
\* "=" when there is a header row, right after the last header row, and
\* none otherwise; it writes one line filled with "-" when there is a footer
\* row, right before the first footer row, and none otherwise.  The returned
\* String holds them: one "="-filled and one "-"-filled line under the same
\* conditions (when the columns leave the line a character), and the tables
\* of the tests header and no_body come out as the tests say.
C19_RowOrderAndSeparators ==
    Rendered =>
        /\ EmittedRows = RowsInOrder
        /\ Cardinality(Emitted("=")) = (IF Len(tbl.element.header) >= 1 THEN 1 ELSE 0)
        /\ \A i \in Emitted("=") :
               /\ i > 1
               /\ tbl.emitted[i - 1].kind = "row"
               /\ tbl.emitted[i - 1].origin = <<"header", Len(tbl.element.header)>>
               /\ IsFilled(tbl.emitted[i].line, "=")
        /\ Cardinality(Emitted("-")) = (IF Len(tbl.element.footer) >= 1 THEN 1 ELSE 0)
        /\ \A i \in Emitted("-") :
               /\ i < Len(tbl.emitted)
               /\ tbl.emitted[i + 1].kind = "row"
               /\ tbl.emitted[i + 1].origin = <<"footer", 1>>
               /\ IsFilled(tbl.emitted[i].line, "-")
        /\ SeparatorLine("=", tbl.widths) # <<>> =>
               /\ Cardinality(FilledLines("="))
                      = (IF Len(tbl.element.header) >= 1 THEN 1 ELSE 0)
               /\ Cardinality(FilledLines("-"))
                      = (IF Len(tbl.element.footer) >= 1 THEN 1 ELSE 0)
        /\ (/\ tbl.element = [header |-> <<Cells(<<"1", "2", "3">>)>>,
                               body |-> <<Cells(<<"4", "5", "6">>)>>, footer |-> <<>>]
            /\ tbl.max_width = <<>>)
               => tbl.result = <<"1", SP, "|", SP, "2", SP, "|", SP, "3", NL,
                                 "=", "=", "|", "=", "=", "=", "|", "=", "=", NL,
                                 "4", SP, "|", SP, "5", SP, "|", SP, "6">>
        /\ (/\ tbl.element = [header |-> <<Cells(<<"1", "2", "3">>)>>, body |-> <<>>,
                               footer |-> <<Cells(<<"4", "5", "6">>)>>]
            /\ tbl.max_width = <<>>)
               => tbl.result = <<"1", SP, "|", SP, "2", SP, "|", SP, "3", NL,
                                 "=", "=", "|", "=", "=", "=", "|", "=", "=", NL,
                                 "-", "-", "|", "-", "-", "-", "|", "-", "-", NL,
                                 "4", SP, "|", SP, "5", SP, "|", SP, "6">>

\* a table with two header rows, a body row and two footer rows is rendered:
\* "1", "2", the "=" line, "3", the "-" line, "4", "5"
C19_Witness ==
    /\ Rendered
    /\ Len(tbl.element.header) = 2 /\ Len(tbl.element.body) = 1
    /\ Len(tbl.element.footer) = 2
    /\ tbl.result = <<"1", NL, "2", NL, "=", NL, "3", NL, "-", NL, "4", NL, "5">>

\* C20: rendering never fails: whatever the table (empty, ragged, with rows
\* that have no cells), no assertion fails, nothing is divided by zero and no
\* usize arithmetic leaves usize.
C20_RenderNeverFails == fault = {}

---------------------------------------------------------------------------
(* C21: the maximum width of a render.                                     *)

\* the words of all the lines, in order
RECURSIVE WordsOfLines(_)
WordsOfLines(ls) == IF ls = <<>> THEN <<>> ELSE Words(Head(ls)) \o WordsOfLines(Tail(ls))

---------------------------------------------------------------------------
(* C22: rewrite_url.                                                       *)

\* C22: when rewrite_url returns true on a URL, it returns true again on the
\* URL it left, and leaves that one as it is.
C22_RewriteIdempotent ==
    (tbl.stage = "twice" /\ tbl.first.ok) =>
        (tbl.second.ok /\ tbl.second.url = tbl.first.url)

---------------------------------------------------------------------------
(* C23: the pager of text content.                                         *)

\* C23: for text content every "%p" argument of the command is the value of
\* PAGER, or the empty string when PAGER is not set.
C23_PagerOrEmpty ==
    (tbl.stage = "shown" /\ tbl.content = "Text" /\ tbl.command.ok) =>
        \A i \in 2..Len(tbl.argv) :
            tbl.argv[i] = <<"%", "p">> =>
                tbl.command.args[i - 1] = (IF tbl.env = <<>> THEN <<>> ELSE tbl.env[1].s)

---------------------------------------------------------------------------
(* C24: the gap prefix offset.                                             *)

\* C24: in every state gap_prefix_offset is at most the length of
\* subsequent_prefix, so the slice of push_gap never underflows.
C24_GapOffsetWithinPrefix ==
    gap_prefix_offset <= Len(subsequent_prefix)

\* a prefixed Block inside a prefixed Block that has written its first line, the
\* inner one still owing its own, and a gap already written
C24_Witness ==
    /\ gap_prefix_offset > 0
    /\ gap_prefix_offset < Len(subsequent_prefix)
    /\ \E i \in 1..Len(log) : log[i].op = "drop"
    /\ result # <<>>

---------------------------------------------------------------------------
(* C25: the initial prefix of a Block.                                     *)

\* the lines written while a prefixed Block lived, and whether one carries the
\* Block's initial prefix or stands under its subsequent prefix (a line that was
\* trimmed at its end stands under it as far as it goes)
LinesOf(e) == SplitLines(SubSeq(e.after, e.gh.res0 + 1, Len(e.after)))

HasInitial(e, l) ==
    LET col == Len(e.gh.encl)
        mark == trim_end(e.own.initial)
    IN  Len(l) >= col + Len(mark) /\ SubSeq(l, col + 1, col + Len(mark)) = mark

UnderSubsequent(e, l) ==
    LET p == e.gh.encl \o e.own.subsequent
    IN  IF Len(l) >= Len(p) THEN SubSeq(l, 1, Len(p)) = p ELSE l = SubSeq(p, 1, Len(l))

\* C25: within one prefixed Block the initial prefix is written at most once,
\* and every line written after the line that carries it, by the Block, a nested
\* Block or a RawBlock, starts with the subsequent prefix.
C25_InitialPrefixOnce ==
    \A i \in Calls("drop") :
        LET e == log[i]
            ls == LinesOf(e)
        IN  (e.prefixed /\ e.own.initial # e.own.subsequent) =>
                \A k \in 1..Len(ls) :
                    HasInitial(e, ls[k]) =>
                        \A j \in (k + 1)..Len(ls) :
                            ~HasInitial(e, ls[j]) /\ UnderSubsequent(e, ls[j])

---------------------------------------------------------------------------
(* C26: start and end markers.                                             *)

\* C26: a push_raw_end writes its marker exactly when the marker of the
\* push_raw_start it ends was written.
C26_MarkersBalanced ==
    \A i \in Calls("push_raw_end") :
        LET e == log[i]
        IN  e.gh.marks # <<>> => ((e.after = e.before \o e.m) <=> Last(e.gh.marks))

---------------------------------------------------------------------------
(* C27: whitespace pushed on an empty buffer.                              *)

\* C27: whitespace pushed while the pending buffer is empty or ends with a line
\* break puts no space between pieces pushed later with nothing between them:
\* where an a element writes its link, the text stands right after the "[".
C27_NoSpaceAfterBracket ==
    \A i \in Calls("a") :
        LET e == log[i]
        IN  ~(e.href = "anchor" /\ OneVisibleChar(e.text)) =>
                \E k \in 1..Len(e.after) :
                    /\ k > Len(e.before)
                    /\ e.after[k] = "["
                    /\ SubSeq(e.after, k + 1, Len(e.after))
                           = SubSeq(LinkText(e), 2, Len(LinkText(e)))

---------------------------------------------------------------------------
(* C28: the proportional branches of compute_widths.                       *)

\* compute_widths went past its first three returns: there is a maximum width,
\* the max widths with their separators exceed it, the min widths with theirs
\* are below it, and the averages (each at least its min) do not meet it
Proportional ==
    /\ tbl.stage = "widths" /\ tbl.max_width # <<>> /\ Columns >= 1
    /\ Sum(Maxes(tbl.column_stats)) + 3 * (Columns - 1) > tbl.max_width[1]
    /\ Sum(Mins(tbl.column_stats)) + 3 * (Columns - 1) < tbl.max_width[1]
    /\ AvgTotal # tbl.max_width[1]

\* C28: for column statistics with min <= max and avg <= max, in a
\* proportional branch of compute_widths the divisor is not zero, no
\* subtraction underflows, and every width lies between the column's min and
\* its max.
C28_ProportionalWidthsInRange ==
    Proportional =>
        /\ fault = {}
        /\ Len(tbl.widths) = Columns
        /\ \A i \in 1..Columns :
               /\ tbl.column_stats[i].min <= tbl.widths[i]
               /\ tbl.widths[i] <= tbl.column_stats[i].max

\* a proportional branch has moved a column's width off its average, to strictly
\* between its min and its max
C28_Witness ==
    /\ Proportional
    /\ \E i \in 1..Columns :
           /\ tbl.column_stats[i].min < tbl.widths[i]
           /\ tbl.widths[i] < tbl.column_stats[i].max
           /\ tbl.widths[i] # ClampedAvg(i)

---------------------------------------------------------------------------
(* C29: the lines of a rendered table.                                     *)

\* the lines the loop of render_table went through: one for a separator, and
\* for a row as many as its tallest cell has, at least one
LinesDue ==
    Sum([i \in 1..Len(tbl.emitted) |->
            IF tbl.emitted[i].kind = "row" THEN Max(tbl.emitted[i].lines, 1) ELSE 1])

\* C29: the String render_table returns has a line for every row and for
\* every further line of a wrapped cell, rows and lines of empty cells
\* included: trimming takes no line break away.
C29_EveryLineKept ==
    (Rendered /\ tbl.emitted # <<>> /\ fault = {}) =>
        Len(SplitLines(tbl.result)) >= LinesDue

---------------------------------------------------------------------------
(* C30: an a element without href.                                         *)

\* C30: an a element without href leaves everything as it found it: no child
\* has been entered, and the pending text, the output and the Blocks with
\* their flags are those from before the element.
C30_NoHrefNoEffect ==
    \A i \in Calls("a_none") :
        LET e == log[i]
        IN  /\ pending = e.pending
            /\ result = e.result
            /\ blocks = e.blocks
            /\ open = e.open

\* such an element came after text and whitespace: the buffer is not empty and
\* whitespace is pending
C30_Witness ==
    /\ Calls("a_none") # {}
    /\ pending # <<>>
    /\ Top.pending_whitespace

====
